---- MODULE Spec2Model ----
(***************************************************************************)
(* Model of the Secure Gmail MCP server (src/src/index.ts): the rate       *)
(* limiter, the tool-call dispatcher, authentication, the audit logger and *)
(* the tool handlers.                                                      *)
(*                                                                         *)
(* A tool call is modelled as a sequence of steps of one in-flight call    *)
(* (position pc); the events it causes (auditLog invocations, mail-API     *)
(* calls, handler invocations, file operations, pauses) are appended to    *)
(* trace in program order.                                                 *)
(***************************************************************************)
EXTENDS Integers, Sequences, FiniteSets, TLC

\* ---------------------------------------------------------------- constants

\* RATE_LIMIT.maxRequests
maxRequests == 50
\* RATE_LIMIT.windowMs
windowMs == 60000
\* emptySpam: const batchSize = 50
batchSize == 50
\* sendEmail: subject.length > 255
MaxSubjectLen == 255
\* sendEmail: body.length > 10000
MaxBodyLen == 10000
\* searchEmails: maxResults = 10
defaultMaxResults == 10
\* searchEmails: Math.min(maxResults, 50)
maxResultsCap == 50

\* Clock readings (Date.now(), ms) offered to the rate limiter on its own:
\* the start, the last instant inside the window of 0, and the first one
\* outside it.
ClockReadings == {0, windowMs - 1, windowMs}

\* Clock advances offered between two tool calls of the dispatcher.
ClockDeltas == {0, windowMs}
\* Largest clock reading of a dispatcher run.
MaxClock == 120000
\* Largest spam folder listed in a dispatcher run.
MaxSmallSpam == 1
\* Largest spam folder whose every pattern of missing ids and rejected
\* deletes is tried when empty_spam is run on its own.
MaxExhaustiveSpam == 3
\* Largest spam folder listed when empty_spam is run on its own.
MaxSpam == 120
\* Most messages a search lists.
MaxListed == 2
\* Longest string over Alphabet handed to sanitizeInput and validateEmail
MaxStrLen == 5
\* Most parts of a MIME part tree handed to extractContent
MaxParts == 4
\* Most path segments of a filename handed to downloadAttachment
MaxSegments == 4
\* Most tool calls the client has outstanding together
MaxInFlight == 2

VARIABLES
    clock,       \* last Date.now() reading
    requests,    \* RATE_LIMIT.requests: client id -> timestamps (a partial map)
    admitted,    \* every timestamp admitted to a direct caller of checkRateLimit
    rlResult,    \* what the last direct checkRateLimit call returned
    gmail,       \* this.gmail: "null" or "client"
    auth,        \* this.auth: "null" or "oauth"
    fsOk,        \* whether audit.log can be written
    pc,          \* position of the in-flight tool call
    name,        \* request.params.name
    args,        \* request.params.arguments
    trace,       \* events of the in-flight (or last) tool call, in order
    appended,    \* audit lines actually appended by that call
    raised,      \* the error a handler (or the switch) raised
    result,      \* what the call gave its caller
    spam,        \* emptySpam's locals and the spam folder at the mail API
    search,      \* searchEmails' locals
    sent,        \* the messages handed to the mail API's send operation
    str,         \* a string handed to sanitizeInput and validateEmail
    cleaned,     \* what sanitizeInput returned for str
    accepted,    \* what validateEmail returned for str
    payload,     \* a MIME part tree handed to readEmailHtml's extractContent
    extracted,   \* what extractContent made of payload
    fileArg,     \* a filename argument handed to downloadAttachment
    filePath,    \* the path downloadAttachment writes for fileArg
    calls        \* tool calls in flight together, each with its position

vars == <<clock, requests, admitted, rlResult, gmail, auth, fsOk, pc, name,
          args, trace, appended, raised, result, spam, search, sent,
          str, cleaned, accepted, payload, extracted, fileArg, filePath,
          calls>>

rlVars == <<clock, requests, admitted, rlResult>>
\* the string under test and what the two helpers made of it
stringVars == <<str, cleaned, accepted>>
\* the part tree under test and what extractContent made of it
mimeVars == <<payload, extracted>>
\* the filename under test and the path written for it
pathVars == <<fileArg, filePath>>
\* what the sequential dispatcher and its handlers never touch
pureVars == <<stringVars, mimeVars, pathVars, calls>>
\* the locals of the handlers
locals == <<spam, search, sent>>
\* what the dispatcher's own steps leave alone
session == <<gmail, auth, fsOk, name, args>>
callVars == <<gmail, auth, fsOk, pc, name, args, trace, appended, raised,
              result, locals>>

\* ------------------------------------------------------------- rate limiter

\* if (!RATE_LIMIT.requests.has(clientId)) RATE_LIMIT.requests.set(clientId, [])
EnsureEntry(reqs, clientId) ==
    IF clientId \in DOMAIN reqs THEN reqs ELSE reqs @@ (clientId :> <<>>)

\* requests.filter(time => time > windowStart)
InWindow(time, windowStart) == time > windowStart

validRequests(reqs, clientId, now) ==
    SelectSeq(EnsureEntry(reqs, clientId)[clientId],
              LAMBDA time : InWindow(time, now - windowMs))

\* the ceiling test with > : one request too many is admitted
AtCeilingOffByOne(valid) == Len(valid) > maxRequests

\* if (validRequests.length >= RATE_LIMIT.maxRequests) return false
AtCeiling(valid) == Len(valid) >= maxRequests

\* unshift for push: the current time goes in front
unshift(valid, now) == <<now>> \o valid

\* validRequests.push(now)
push(valid, now) == Append(valid, now)

\* a limiter that records the denied call as well
checkRateLimitCountingDenied(reqs, clientId, now) ==
    LET valid == validRequests(reqs, clientId, now) IN
    [allowed |-> ~AtCeiling(valid),
     requests |-> [EnsureEntry(reqs, clientId) EXCEPT
                        ![clientId] = Append(valid, now)]]

\* checkRateLimit: the value returned and the map it leaves behind
checkRateLimit(reqs, clientId, now) ==
    LET valid == validRequests(reqs, clientId, now) IN
    IF AtCeiling(valid)
    THEN [allowed |-> FALSE, requests |-> EnsureEntry(reqs, clientId)]
    ELSE [allowed |-> TRUE,
          requests |-> [EnsureEntry(reqs, clientId) EXCEPT
                            ![clientId] = push(valid, now)]]

\* A direct call of checkRateLimit at a clock reading that does not decrease.
RLCall(now) ==
    /\ now >= clock
    /\ LET r == checkRateLimit(requests, "default", now) IN
        /\ clock' = now
        /\ requests' = r.requests
        /\ rlResult' = IF r.allowed THEN "allowed" ELSE "denied"
        /\ admitted' = IF r.allowed THEN Append(admitted, now) ELSE admitted
    /\ UNCHANGED <<callVars, pureVars>>

\* ---------------------------------------------------------------- the state

\* JavaScript values of loosely typed argument fields, by kind.
Truthy(v) == v \notin {"undefined", "null", "false", "empty", "zero"}
IsString(v) == v \in {"empty", "string"}

\* Strings whose content matters are sequences of one-character strings.
Repeat(c, n) == [k \in 1..n |-> c]

\* request.params.arguments: every field any tool reads; a field the caller
\* left out is "undefined" (an array or text left out is marked by its Kind).
NoArgs ==
    [confirm |-> "undefined", query |-> "undefined", maxResults |-> <<>>,
     messageId |-> "undefined", attachmentId |-> "undefined",
     filename |-> "undefined",
     toKind |-> "undefined", to |-> <<>>, cc |-> <<>>, bcc |-> <<>>,
     subjectKind |-> "undefined", subject |-> <<>>,
     bodyKind |-> "undefined", body |-> <<>>]

\* emptySpam's locals (messages = spamMessages as "has an id" flags, i, j,
\* batchLen = batch.length, deletedCount), the mail API's spam folder (box,
\* delFails = the messages whose delete the API rejects) and the number of
\* delete calls issued per listed message (attempts).
NoSpam == [messages |-> <<>>, delFails |-> {}, box |-> {}, i |-> 0, j |-> 0,
           batchLen |-> 0, deletedCount |-> 0, attempts |-> <<>>]

\* searchEmails' locals: asked = the maxResults given to the mail API,
\* messages = the listed messages as "has an id" flags, k = messages visited,
\* detailed = the listed positions whose metadata was fetched.
NoSearch == [asked |-> -1, messages |-> <<>>, k |-> 0, detailed |-> <<>>]

NoResult == [kind |-> "none", text |-> "", totalFound |-> -1,
             deletedCount |-> -1, subject |-> <<>>]
Failure(message) == [NoResult EXCEPT !.kind = "error", !.text = message]
Payload(text) == [NoResult EXCEPT !.kind = "payload", !.text = text]

\* no string has been handed to the helpers
NoOutput == [done |-> FALSE, value |-> <<>>]
NoVerdict == [done |-> FALSE, value |-> FALSE]

\* the server after construction
InitServer ==
    /\ clock = 0
    /\ requests = <<>>
    /\ admitted = <<>>
    /\ rlResult = "none"
    /\ gmail = "null"
    /\ auth = "null"
    /\ fsOk = TRUE
    /\ pc = "idle"
    /\ name = ""
    /\ args = NoArgs
    /\ trace = <<>>
    /\ appended = 0
    /\ raised = ""
    /\ result = NoResult
    /\ spam = NoSpam
    /\ search = NoSearch
    /\ sent = <<>>

\* nothing has been handed to the helpers
NoString ==
    /\ str = <<>>
    /\ cleaned = NoOutput
    /\ accepted = NoVerdict

NoExtract == [done |-> FALSE, htmlBody |-> 0, textBody |-> 0,
              attachmentCount |-> 0]

NoPayload ==
    /\ payload = <<>>
    /\ extracted = NoExtract

NoFile ==
    /\ fileArg = <<>>
    /\ filePath = NoOutput

Init ==
    /\ InitServer
    /\ NoString
    /\ NoPayload
    /\ NoFile
    /\ calls = <<>>

\* ------------------------------------------------------------------ events

Event(kind, tag, level, ref) ==
    [kind |-> kind, tag |-> tag, level |-> level, ref |-> ref]

\* auditLog(level, message): the invocation is recorded; the line reaches
\* the file only when mkdir and appendFile succeed, and a failure is caught.
auditLog(tr, level, tag, ref) == Append(tr, Event("audit", tag, level, ref))
Appended(n, count) == IF fsOk THEN n + count ELSE n

\* an auditLog without its try/catch: a failed write leaves the caller
afterAuditLogRaising(next) == IF fsOk THEN next ELSE "audit_raised"

\* catch (error) { console.error('Failed to write audit log:', error) }:
\* the caller of auditLog goes on to its next position either way
afterAuditLog(next) == next

ApiCall(tr, operation, outcome, ref) ==
    Append(tr, Event("api", operation, outcome, ref))

ApiCallsOf(tr) == SelectSeq(tr, LAMBDA e : e.kind = "api")
InvokesOf(tr) == SelectSeq(tr, LAMBDA e : e.kind = "invoke")
Has(tr, kind, tag) == \E k \in DOMAIN tr : tr[k].kind = kind /\ tr[k].tag = tag

\* -------------------------------------------------------------- dispatcher

RateLimitMsg == "Rate limit exceeded. Please wait before making more requests."
AuthRequiredMsg == "Authentication required. Please run: npm run auth"
AuthFailedMsg == "Gmail authentication failed. Check credentials file."

\* the names of the switch, each with the method it calls
HandlerOf ==
    [n \in {"search_emails", "read_email", "read_email_html",
            "list_attachments", "download_attachment", "delete_email",
            "empty_spam", "send_email", "list_labels"} |->
        CASE n = "search_emails" -> "searchEmails"
          [] n = "read_email" -> "readEmail"
          [] n = "read_email_html" -> "readEmailHtml"
          [] n = "list_attachments" -> "listAttachments"
          [] n = "download_attachment" -> "downloadAttachment"
          [] n = "delete_email" -> "deleteEmail"
          [] n = "empty_spam" -> "emptySpam"
          [] n = "send_email" -> "sendEmail"
          [] n = "list_labels" -> "listLabels"]

\* the names the ListTools handler returns
AdvertisedTools ==
    {"search_emails", "read_email", "send_email", "list_attachments",
     "download_attachment", "read_email_html", "delete_email", "empty_spam"}

\* a denial that first records the call in the audit log
RateLimitDeniedAfterLogging ==
    /\ pc' = "done"
    /\ result' = Failure(RateLimitMsg)
    /\ trace' = auditLog(<<>>, "INFO", "Tool called", name')
    /\ appended' = Appended(0, 1)
    /\ UNCHANGED <<gmail, auth>>

\* if (!this.checkRateLimit()) throw new Error('Rate limit exceeded. ...')
RateLimitDenied ==
    /\ pc' = "done"
    /\ result' = Failure(RateLimitMsg)
    /\ trace' = <<>>
    /\ appended' = 0
    /\ UNCHANGED <<gmail, auth>>

\* a dispatcher that goes on without a mail-client handle
EnsureAuthenticatedSkipped == "log_call"

\* if (!this.gmail) await this.authenticate()
EnsureAuthenticated == IF gmail = "null" THEN "authenticate" ELSE "log_call"

\* A tool call arrives: the rate limiter is asked first.
Receive(nm, a, delta, writable) ==
    /\ pc = "idle"
    /\ clock + delta <= MaxClock
    /\ LET r == checkRateLimit(requests, "default", clock + delta) IN
        /\ clock' = clock + delta
        /\ requests' = r.requests
        /\ name' = nm
        /\ args' = a
        /\ fsOk' = writable
        /\ raised' = ""
        /\ spam' = NoSpam
        /\ search' = NoSearch
        /\ sent' = <<>>
        /\ IF r.allowed
           THEN /\ pc' = EnsureAuthenticated
                /\ result' = NoResult
                /\ trace' = <<>>
                /\ appended' = 0
                /\ UNCHANGED <<gmail, auth>>
           ELSE RateLimitDenied
    /\ UNCHANGED <<admitted, rlResult, pureVars>>

\* authenticate's outer catch: log, then throw the credentials message
AuthOuterCatch(tr, cause) ==
    [trace |-> auditLog(tr, "ERROR", "Authentication failed", cause),
     thrown |-> AuthFailedMsg]

\* an authenticate called inside the dispatcher's try: its failure reaches
\* the dispatcher's catch
AuthCredentialsFailInsideTry ==
    /\ pc = "authenticate"
    /\ LET c == AuthOuterCatch(Append(trace, Event("authenticate", "credentials", "fail", "")),
                               "credentials unreadable") IN
        /\ trace' = c.trace
        /\ raised' = c.thrown
    /\ appended' = Appended(appended, 1)
    /\ pc' = afterAuditLog("catch")
    /\ UNCHANGED <<rlVars, pureVars, session, result, locals>>

\* authenticate: the credentials file cannot be read or parsed
AuthCredentialsFail ==
    /\ pc = "authenticate"
    /\ LET c == AuthOuterCatch(Append(trace, Event("authenticate", "credentials", "fail", "")),
                               "credentials unreadable") IN
        /\ trace' = c.trace
        /\ result' = Failure(c.thrown)
    /\ appended' = Appended(appended, 1)
    /\ pc' = afterAuditLog("done")
    /\ UNCHANGED <<rlVars, pureVars, session, raised, locals>>

\* authenticate: the token file is missing or invalid, or the access token
\* cannot be had; the inner catch throws inside the outer try
AuthTokenFail ==
    /\ pc = "authenticate"
    /\ auth' = "oauth"
    /\ LET inner == auditLog(Append(trace, Event("authenticate", "token", "fail", "")),
                             "WARN", "Token validation failed", "")
           c == AuthOuterCatch(inner, AuthRequiredMsg) IN
        /\ trace' = c.trace
        /\ result' = Failure(c.thrown)
    /\ appended' = Appended(appended, 2)
    /\ pc' = afterAuditLog("done")
    /\ UNCHANGED <<rlVars, pureVars, gmail, fsOk, name, args, raised, locals>>

\* authenticate: credentials and token are good
AuthOk ==
    /\ pc = "authenticate"
    /\ auth' = "oauth"
    /\ gmail' = "client"
    /\ trace' = auditLog(Append(trace, Event("authenticate", "token", "ok", "")),
                         "INFO", "Authentication successful", "")
    /\ appended' = Appended(appended, 1)
    /\ pc' = afterAuditLog("log_call")
    /\ UNCHANGED <<rlVars, pureVars, fsOk, name, args, raised, result, locals>>

\* a dispatcher that goes to the switch without the entry
LogCallSkipped ==
    /\ pc = "log_call"
    /\ pc' = "dispatch"
    /\ UNCHANGED <<rlVars, pureVars, session, trace, appended, raised, result,
                   locals>>

\* await this.auditLog('INFO', `Tool called: ${name} with args: ...`)
LogCall ==
    /\ pc = "log_call"
    /\ trace' = auditLog(trace, "INFO", "Tool called", name)
    /\ appended' = Appended(appended, 1)
    /\ pc' = afterAuditLog("dispatch")
    /\ UNCHANGED <<rlVars, pureVars, session, raised, result, locals>>

\* a switch whose default case returns quietly
UnknownToolIgnored(nm) == [pc |-> "done", raised |-> ""]

\* default: throw new Error(`Unknown tool: ${name}`)
UnknownTool(nm) == [pc |-> "catch", raised |-> "Unknown tool: " \o nm]

\* switch (name): the case's method is called, inside the try
Dispatch ==
    /\ pc = "dispatch"
    /\ IF name \in DOMAIN HandlerOf
       THEN /\ trace' = Append(trace, Event("invoke", HandlerOf[name], "", name))
            /\ pc' = HandlerOf[name]
            /\ UNCHANGED raised
       ELSE /\ pc' = UnknownTool(name).pc
            /\ raised' = UnknownTool(name).raised
            /\ UNCHANGED trace
    /\ UNCHANGED <<rlVars, pureVars, session, appended, result, locals>>

\* a catch that calls the method once more before giving up
CatchRetrying(tr, nm) ==
    auditLog(Append(tr, Event("invoke", "retry", "", nm)),
             "ERROR", "Tool failed", nm)

\* catch (error) { await this.auditLog('ERROR', `Tool ${name} failed: ...`)
CatchLog(tr, nm) == auditLog(tr, "ERROR", "Tool failed", nm)

\* ... throw error }
Catch ==
    /\ pc = "catch"
    /\ trace' = CatchLog(trace, name)
    /\ appended' = Appended(appended, 1)
    /\ result' = Failure(raised)
    /\ pc' = afterAuditLog("done")
    /\ UNCHANGED <<rlVars, pureVars, session, raised, locals>>

\* --------------------------------------------------------------- emptySpam

RefusalText == "Confirmation required"
AlreadyEmptyText == "Spam folder is already empty"
EmptiedText == "Spam folder successfully emptied"

Min(a, b) == IF a <= b THEN a ELSE b

\* a handler that never looks at confirm
ConfirmNotChecked(a) == TRUE

\* if (!confirm) return the refusal
Confirmed(a) == Truthy(a.confirm)

EmptySpamRefuse ==
    /\ pc = "emptySpam"
    /\ ~Confirmed(args)
    /\ result' = Payload(RefusalText)
    /\ pc' = "done"
    /\ UNCHANGED <<rlVars, pureVars, session, trace, appended, raised, locals>>

\* await this.auditLog('WARN', 'Starting spam folder cleanup - USER INITIATED')
EmptySpamStart ==
    /\ pc = "emptySpam"
    /\ Confirmed(args)
    /\ trace' = auditLog(trace, "WARN", "Starting spam folder cleanup", "")
    /\ appended' = Appended(appended, 1)
    /\ pc' = afterAuditLog("spam_list")
    /\ UNCHANGED <<rlVars, pureVars, session, raised, result, locals>>

\* emptySpam's outer catch
EmptySpamCatch(tr) ==
    [trace |-> auditLog(tr, "ERROR", "Failed to empty spam folder", ""),
     thrown |-> "Failed to empty spam folder: Error"]

\* messages.list({q: 'in:spam', maxResults: 500}) fails
SpamListFail ==
    /\ pc = "spam_list"
    /\ LET c == EmptySpamCatch(ApiCall(trace, "messages.list", "fail", "in:spam")) IN
        /\ trace' = c.trace
        /\ raised' = c.thrown
    /\ appended' = Appended(appended, 1)
    /\ pc' = afterAuditLog("catch")
    /\ UNCHANGED <<rlVars, pureVars, session, result, locals>>

\* messages.list succeeds with folder.n messages, those of folder.noId
\* without an id; the mail API will reject the delete of those in
\* folder.delFails
SpamListOk(folder) ==
    /\ pc = "spam_list"
    /\ IF folder.n = 0
       THEN /\ trace' = auditLog(ApiCall(trace, "messages.list", "ok", "in:spam"),
                                 "INFO", AlreadyEmptyText, "")
            /\ appended' = Appended(appended, 1)
            /\ result' = [Payload(AlreadyEmptyText) EXCEPT !.deletedCount = 0]
            /\ pc' = afterAuditLog("done")
            /\ UNCHANGED spam
       ELSE /\ trace' = ApiCall(trace, "messages.list", "ok", "in:spam")
            /\ spam' = [messages |-> [k \in 1..folder.n |-> k \notin folder.noId],
                        delFails |-> folder.delFails,
                        box |-> 1..folder.n,
                        i |-> 0, j |-> 0, batchLen |-> 0, deletedCount |-> 0,
                        attempts |-> [k \in 1..folder.n |-> 0]]
            /\ pc' = "spam_loop"
            /\ UNCHANGED <<appended, result>>
    /\ UNCHANGED <<rlVars, pureVars, session, raised, search, sent>>

\* spamMessages.slice(i, i + batchSize).length
BatchOf(n, i) == Min(batchSize, n - i)

\* for (let i = 0; i < spamMessages.length; ...) { const batch = ...
SpamBatch ==
    /\ pc = "spam_loop"
    /\ spam.i < Len(spam.messages)
    /\ spam' = [spam EXCEPT !.batchLen = BatchOf(Len(spam.messages), spam.i),
                            !.j = 0]
    /\ trace' = Append(trace, Event("batch", "slice", "",
                                    ToString(BatchOf(Len(spam.messages), spam.i))))
    /\ pc' = "spam_msg"
    /\ UNCHANGED <<rlVars, pureVars, session, appended, raised, result, search, sent>>

\* a loop body that counts a rejected delete as done
DeletedCountAfterAlways(count, ok) == count + 1

\* deletedCount++ follows the awaited delete inside the try
DeletedCountAfter(count, ok) == IF ok THEN count + 1 ELSE count

\* for (const message of batch) { if (message.id) { try { delete; count }
\* catch { auditLog } } }
SpamVisit ==
    /\ pc = "spam_msg"
    /\ spam.j < spam.batchLen
    /\ LET k == spam.i + spam.j + 1
           ok == k \notin spam.delFails
       IN
        IF spam.messages[k]
        THEN /\ spam' = [spam EXCEPT
                            !.j = @ + 1,
                            !.attempts[k] = @ + 1,
                            !.box = IF ok THEN @ \ {k} ELSE @,
                            !.deletedCount = DeletedCountAfter(@, ok)]
             /\ trace' = IF ok
                         THEN ApiCall(trace, "messages.delete", "ok", ToString(k))
                         ELSE auditLog(ApiCall(trace, "messages.delete", "fail", ToString(k)),
                                       "ERROR", "Failed to delete spam email", ToString(k))
             /\ appended' = IF ok THEN appended ELSE Appended(appended, 1)
             /\ pc' = IF ok THEN pc ELSE afterAuditLog(pc)
        ELSE /\ spam' = [spam EXCEPT !.j = @ + 1]
             /\ UNCHANGED <<pc, trace, appended>>
    /\ UNCHANGED <<rlVars, pureVars, session, raised, result, search, sent>>

\* a step of one less than the batch: the batches overlap
NextBatchStartOverlapping(i) == i + batchSize - 1

\* i += batchSize
NextBatchStart(i) == i + batchSize

\* a loop that pauses after every batch
PauseNeededAlways(n, i) == TRUE

\* if (i + batchSize < spamMessages.length) await the 1000 ms timeout
PauseNeeded(n, i) == i + batchSize < n

\* the batch is done: the pause, then i += batchSize
SpamBatchEnd ==
    /\ pc = "spam_msg"
    /\ spam.j = spam.batchLen
    /\ trace' = IF PauseNeeded(Len(spam.messages), spam.i)
                THEN Append(trace, Event("pause", "setTimeout", "", "1000"))
                ELSE trace
    /\ spam' = [spam EXCEPT !.i = NextBatchStart(@)]
    /\ pc' = "spam_loop"
    /\ UNCHANGED <<rlVars, pureVars, session, appended, raised, result, search, sent>>

\* after the loop: the closing audit entry and the success payload
SpamFinish ==
    /\ pc = "spam_loop"
    /\ spam.i >= Len(spam.messages)
    /\ trace' = auditLog(trace, "WARN", "Spam cleanup completed",
                         ToString(spam.deletedCount))
    /\ appended' = Appended(appended, 1)
    /\ result' = [Payload(EmptiedText) EXCEPT
                    !.totalFound = Len(spam.messages),
                    !.deletedCount = spam.deletedCount]
    /\ pc' = afterAuditLog("done")
    /\ UNCHANGED <<rlVars, pureVars, session, raised, locals>>

\* ------------------------------------------------ validation, sanitizing

WhiteSpace == {" ", "\t", "\n", "\r"}

\* a pattern without the dot: local part, "@", domain
validateEmailAtOnly(email) ==
    \E p \in DOMAIN email :
        /\ email[p] = "@"
        /\ 1 < p /\ p < Len(email)
        /\ \A k \in DOMAIN email :
            (email[k] \in WhiteSpace \/ email[k] = "@") => k = p

\* /^[^\s@]+@[^\s@]+\.[^\s@]+$/.test(email): one "@" at p, a "." at q, a
\* non-empty run before p, between p and q and after q, and neither white
\* space nor another "@" anywhere
validateEmail(email) ==
    \E p \in DOMAIN email : \E q \in DOMAIN email :
        /\ email[p] = "@"
        /\ email[q] = "."
        /\ 1 < p /\ p + 1 < q /\ q < Len(email)
        /\ \A k \in DOMAIN email :
            (email[k] \in WhiteSpace \/ email[k] = "@") => k = p

\* String.prototype.trim
Trim(s) ==
    IF \A k \in DOMAIN s : s[k] \in WhiteSpace
    THEN <<>>
    ELSE LET first == CHOOSE k \in DOMAIN s :
                        /\ s[k] \notin WhiteSpace
                        /\ \A m \in 1..(k - 1) : s[m] \in WhiteSpace
             last == CHOOSE k \in DOMAIN s :
                        /\ s[k] \notin WhiteSpace
                        /\ \A m \in (k + 1)..Len(s) : s[m] \in WhiteSpace
         IN SubSeq(s, first, last)

\* a replace without the g flag: only the first angle bracket goes
sanitizeInputFirstOnly(input) ==
    LET hits == {k \in DOMAIN input : input[k] \in {"<", ">"}} IN
    IF hits = {}
    THEN Trim(input)
    ELSE LET h == CHOOSE k \in hits : \A m \in hits : k <= m IN
         Trim(SubSeq(input, 1, h - 1) \o SubSeq(input, h + 1, Len(input)))

\* input.replace(/[<>]/g, '').trim()
sanitizeInput(input) ==
    Trim(SelectSeq(input, LAMBDA c : c \notin {"<", ">"}))

\* --------------------------------------------------------------- sendEmail

\* a length test that lets one character too many through
SubjectTooLongOffByOne(subject) == Len(subject) > MaxSubjectLen + 1

\* subject.length > 255
SubjectTooLong(subject) == Len(subject) > MaxSubjectLen

\* body.length > 10000
BodyTooLong(body) == Len(body) > MaxBodyLen

\* const allEmails = [...to, ...cc, ...bcc]
allEmails(a) == a.to \o a.cc \o a.bcc

\* the checks of sendEmail in their order: the message of the first one
\* that fails, "" when all pass
SendValidationError(a) ==
    IF a.toKind # "array" \/ Len(a.to) = 0
    THEN "Recipients (to) must be a non-empty array"
    ELSE IF a.subjectKind # "string" \/ Len(a.subject) = 0
            \/ SubjectTooLong(a.subject)
    THEN "Subject must be a string with max 255 characters"
    ELSE IF a.bodyKind # "string" \/ Len(a.body) = 0 \/ BodyTooLong(a.body)
    THEN "Body must be a string with max 10000 characters"
    ELSE IF \E k \in DOMAIN allEmails(a) : ~validateEmail(allEmails(a)[k])
    THEN "Invalid email address"
    ELSE ""

\* a validation error is thrown before the try
SendReject ==
    /\ pc = "sendEmail"
    /\ SendValidationError(args) # ""
    /\ raised' = SendValidationError(args)
    /\ pc' = "catch"
    /\ UNCHANGED <<rlVars, pureVars, session, trace, appended, result, locals>>

\* a sendEmail that goes to the send call without the attempt entry
SendAttemptUnlogged ==
    /\ pc = "sendEmail"
    /\ SendValidationError(args) = ""
    /\ pc' = "send_call"
    /\ UNCHANGED <<rlVars, pureVars, session, trace, appended, raised, result,
                   locals>>

\* await this.auditLog('WARN', `Email send attempt - To: ..., Subject: ...`)
SendAttempt ==
    /\ pc = "sendEmail"
    /\ SendValidationError(args) = ""
    /\ trace' = auditLog(trace, "WARN", "Email send attempt", "")
    /\ appended' = Appended(appended, 1)
    /\ pc' = afterAuditLog("send_call")
    /\ UNCHANGED <<rlVars, pureVars, session, raised, result, locals>>

\* Array.prototype.join: the strings with sep between them
RECURSIVE join(_, _)
join(strings, sep) ==
    IF Len(strings) = 0 THEN <<>>
    ELSE IF Len(strings) = 1 THEN strings[1]
    ELSE strings[1] \o sep \o join(Tail(strings), sep)

ToHeader == <<"T", "o", ":", " ">>
CcHeader == <<"C", "c", ":", " ">>
BccHeader == <<"B", "c", "c", ":", " ">>
SubjectHeader == <<"S", "u", "b", "j", "e", "c", "t", ":", " ">>
ContentTypeLine ==
    <<"C", "o", "n", "t", "e", "n", "t", "-", "T", "y", "p", "e", ":", " ",
      "t", "e", "x", "t", "/", "p", "l", "a", "i", "n", ";", " ", "c", "h",
      "a", "r", "s", "e", "t", "=", "u", "t", "f", "-", "8">>

\* emailLines after its pushes
emailLines(a) ==
    <<ToHeader \o join(a.to, <<",", " ">>)>>
    \o (IF Len(a.cc) > 0 THEN <<CcHeader \o join(a.cc, <<",", " ">>)>> ELSE <<>>)
    \o (IF Len(a.bcc) > 0 THEN <<BccHeader \o join(a.bcc, <<",", " ">>)>> ELSE <<>>)
    \o <<SubjectHeader \o sanitizeInput(a.subject),
         ContentTypeLine,
         <<>>,
         sanitizeInput(a.body)>>

\* const email = emailLines.join('\n')
email(a) == join(emailLines(a), <<"\n">>)

\* requestBody: { raw: encodedEmail }, the text before its base64url coding
EmailOf(a) == [raw |-> email(a)]

\* messages.send succeeds
SendOk ==
    /\ pc = "send_call"
    /\ sent' = Append(sent, EmailOf(args))
    /\ trace' = auditLog(ApiCall(trace, "messages.send", "ok", ""),
                         "INFO", "Email sent successfully", "")
    /\ appended' = Appended(appended, 1)
    /\ result' = [Payload("Email sent") EXCEPT
                    !.subject = sanitizeInput(args.subject)]
    /\ pc' = afterAuditLog("done")
    /\ UNCHANGED <<rlVars, pureVars, session, raised, spam, search>>

\* messages.send fails: sendEmail's catch logs and wraps the error
SendFail ==
    /\ pc = "send_call"
    /\ sent' = Append(sent, EmailOf(args))
    /\ trace' = auditLog(ApiCall(trace, "messages.send", "fail", ""),
                         "ERROR", "Email send failed", "")
    /\ appended' = Appended(appended, 1)
    /\ raised' = "Failed to send email: Error"
    /\ pc' = afterAuditLog("catch")
    /\ UNCHANGED <<rlVars, pureVars, session, result, spam, search>>

\* ------------------------------------------------------------ searchEmails

\* if (!query || typeof query !== 'string')
InvalidText(v) == ~Truthy(v) \/ ~IsString(v)

\* a request that passes the caller's maxResults on as it is
AskedResultsUncapped(a) ==
    IF a.maxResults = <<>> THEN defaultMaxResults ELSE a.maxResults[1]

\* const { query, maxResults = 10 } = args; ... Math.min(maxResults, 50)
AskedResults(a) ==
    Min(IF a.maxResults = <<>> THEN defaultMaxResults ELSE a.maxResults[1],
        maxResultsCap)

SearchReject ==
    /\ pc = "searchEmails"
    /\ InvalidText(args.query)
    /\ raised' = "Invalid query parameter"
    /\ pc' = "catch"
    /\ UNCHANGED <<rlVars, pureVars, session, trace, appended, result, locals>>

\* messages.list fails
SearchListFail ==
    /\ pc = "searchEmails"
    /\ ~InvalidText(args.query)
    /\ search' = [search EXCEPT !.asked = AskedResults(args)]
    /\ trace' = ApiCall(trace, "messages.list", "fail", "")
    /\ raised' = "Failed to search emails: Error"
    /\ pc' = "catch"
    /\ UNCHANGED <<rlVars, pureVars, session, appended, result, spam, sent>>

\* messages.list returns the messages of listing (flags "has an id"), no
\* more of them than it was asked for
SearchListOk(listing) ==
    /\ pc = "searchEmails"
    /\ ~InvalidText(args.query)
    /\ Len(listing) <= AskedResults(args)
    /\ search' = [asked |-> AskedResults(args), messages |-> listing,
                  k |-> 0, detailed |-> <<>>]
    /\ trace' = ApiCall(trace, "messages.list", "ok", "")
    /\ pc' = "search_get"
    /\ UNCHANGED <<rlVars, pureVars, session, appended, raised, result, spam, sent>>

\* for (const message of messages): a message without an id is passed over
SearchSkip ==
    /\ pc = "search_get"
    /\ search.k < Len(search.messages)
    /\ ~search.messages[search.k + 1]
    /\ search' = [search EXCEPT !.k = @ + 1]
    /\ UNCHANGED <<rlVars, pureVars, session, pc, trace, appended, raised, result, spam, sent>>

\* messages.get({format: 'metadata'}) of the next listed message succeeds
SearchGetOk ==
    /\ pc = "search_get"
    /\ search.k < Len(search.messages)
    /\ search.messages[search.k + 1]
    /\ search' = [search EXCEPT !.k = @ + 1,
                                !.detailed = Append(@, search.k + 1)]
    /\ trace' = ApiCall(trace, "messages.get", "ok", ToString(search.k + 1))
    /\ UNCHANGED <<rlVars, pureVars, session, pc, appended, raised, result, spam, sent>>

\* ... or fails
SearchGetFail ==
    /\ pc = "search_get"
    /\ search.k < Len(search.messages)
    /\ search.messages[search.k + 1]
    /\ trace' = ApiCall(trace, "messages.get", "fail", ToString(search.k + 1))
    /\ raised' = "Failed to search emails: Error"
    /\ pc' = "catch"
    /\ UNCHANGED <<rlVars, pureVars, session, appended, result, locals>>

SearchReturn ==
    /\ pc = "search_get"
    /\ search.k = Len(search.messages)
    /\ result' = [Payload("Search results") EXCEPT
                    !.totalFound = Len(search.detailed)]
    /\ pc' = "done"
    /\ UNCHANGED <<rlVars, pureVars, session, trace, appended, raised, locals>>

\* ------------------------------------- readEmail, readEmailHtml, listLabels

ReadReject ==
    /\ pc = "readEmail"
    /\ InvalidText(args.messageId)
    /\ raised' = "Invalid messageId parameter"
    /\ pc' = "catch"
    /\ UNCHANGED <<rlVars, pureVars, session, trace, appended, result, locals>>

\* messages.get({format: 'full'}), then the shaped message
ReadOk ==
    /\ pc = "readEmail"
    /\ ~InvalidText(args.messageId)
    /\ trace' = ApiCall(trace, "messages.get", "ok", "")
    /\ result' = Payload("Email")
    /\ pc' = "done"
    /\ UNCHANGED <<rlVars, pureVars, session, appended, raised, locals>>

ReadFail ==
    /\ pc = "readEmail"
    /\ ~InvalidText(args.messageId)
    /\ trace' = ApiCall(trace, "messages.get", "fail", "")
    /\ raised' = "Failed to read email: Error"
    /\ pc' = "catch"
    /\ UNCHANGED <<rlVars, pureVars, session, appended, result, locals>>

ReadHtmlReject ==
    /\ pc = "readEmailHtml"
    /\ InvalidText(args.messageId)
    /\ raised' = "Invalid messageId parameter"
    /\ pc' = "catch"
    /\ UNCHANGED <<rlVars, pureVars, session, trace, appended, result, locals>>

ReadHtmlOk ==
    /\ pc = "readEmailHtml"
    /\ ~InvalidText(args.messageId)
    /\ trace' = ApiCall(trace, "messages.get", "ok", "")
    /\ result' = Payload("Email with HTML")
    /\ pc' = "done"
    /\ UNCHANGED <<rlVars, pureVars, session, appended, raised, locals>>

ReadHtmlFail ==
    /\ pc = "readEmailHtml"
    /\ ~InvalidText(args.messageId)
    /\ trace' = ApiCall(trace, "messages.get", "fail", "")
    /\ raised' = "Failed to read email HTML: Error"
    /\ pc' = "catch"
    /\ UNCHANGED <<rlVars, pureVars, session, appended, result, locals>>

\* labels.list, then the shaped labels
ListLabelsOk ==
    /\ pc = "listLabels"
    /\ trace' = ApiCall(trace, "labels.list", "ok", "")
    /\ result' = Payload("Labels")
    /\ pc' = "done"
    /\ UNCHANGED <<rlVars, pureVars, session, appended, raised, locals>>

ListLabelsFail ==
    /\ pc = "listLabels"
    /\ trace' = ApiCall(trace, "labels.list", "fail", "")
    /\ raised' = "Failed to list labels: Error"
    /\ pc' = "catch"
    /\ UNCHANGED <<rlVars, pureVars, session, appended, result, locals>>

\* ------------------------------------- listAttachments, downloadAttachment

ListAttachmentsReject ==
    /\ pc = "listAttachments"
    /\ InvalidText(args.messageId)
    /\ raised' = "Invalid messageId parameter"
    /\ pc' = "catch"
    /\ UNCHANGED <<rlVars, pureVars, session, trace, appended, result, locals>>

\* messages.get, the walk of the parts, then the audit entry
ListAttachmentsOk ==
    /\ pc = "listAttachments"
    /\ ~InvalidText(args.messageId)
    /\ trace' = auditLog(ApiCall(trace, "messages.get", "ok", ""),
                         "INFO", "Listed attachments", "")
    /\ appended' = Appended(appended, 1)
    /\ result' = Payload("Attachments")
    /\ pc' = afterAuditLog("done")
    /\ UNCHANGED <<rlVars, pureVars, session, raised, locals>>

ListAttachmentsFail ==
    /\ pc = "listAttachments"
    /\ ~InvalidText(args.messageId)
    /\ trace' = ApiCall(trace, "messages.get", "fail", "")
    /\ raised' = "Failed to list attachments: Error"
    /\ pc' = "catch"
    /\ UNCHANGED <<rlVars, pureVars, session, appended, result, locals>>

\* if (!messageId || !attachmentId)
DownloadReject ==
    /\ pc = "downloadAttachment"
    /\ ~Truthy(args.messageId) \/ ~Truthy(args.attachmentId)
    /\ raised' = "messageId and attachmentId are required"
    /\ pc' = "catch"
    /\ UNCHANGED <<rlVars, pureVars, session, trace, appended, result, locals>>

\* downloadAttachment's catch
DownloadCatch(tr) ==
    [trace |-> auditLog(tr, "ERROR", "Failed to download attachment", ""),
     thrown |-> "Failed to download attachment: Error"]

\* attachments.get fails, or answers without data
DownloadGetFail(outcome) ==
    /\ pc = "downloadAttachment"
    /\ Truthy(args.messageId) /\ Truthy(args.attachmentId)
    /\ LET c == DownloadCatch(ApiCall(trace, "attachments.get", outcome, "")) IN
        /\ trace' = c.trace
        /\ raised' = c.thrown
    /\ appended' = Appended(appended, 1)
    /\ pc' = afterAuditLog("catch")
    /\ UNCHANGED <<rlVars, pureVars, session, result, locals>>

\* const finalFilename = filename || `attachment_${timestamp}`
finalFilename(a) ==
    IF Truthy(a.filename) THEN a.filename ELSE "attachment_timestamp"

\* attachments.get gives the data; mkdir and writeFile of the downloads
\* directory succeed (written) or fail
DownloadWrite(written) ==
    /\ pc = "downloadAttachment"
    /\ Truthy(args.messageId) /\ Truthy(args.attachmentId)
    /\ LET got == ApiCall(trace, "attachments.get", "ok", "") IN
        IF written
        THEN /\ trace' = auditLog(
                    Append(Append(got, Event("fs", "mkdir", "ok", "downloads")),
                           Event("fs", "writeFile", "ok", finalFilename(args))),
                    "INFO", "Downloaded attachment", finalFilename(args))
             /\ result' = Payload("Attachment saved")
             /\ pc' = afterAuditLog("done")
             /\ UNCHANGED raised
        ELSE LET c == DownloadCatch(Append(got, Event("fs", "mkdir", "fail", "downloads"))) IN
             /\ trace' = c.trace
             /\ raised' = c.thrown
             /\ pc' = afterAuditLog("catch")
             /\ UNCHANGED result
    /\ appended' = Appended(appended, 1)
    /\ UNCHANGED <<rlVars, pureVars, session, locals>>

\* ------------------------------------------------------------- deleteEmail

DeleteReject ==
    /\ pc = "deleteEmail"
    /\ InvalidText(args.messageId)
    /\ raised' = "Invalid messageId parameter"
    /\ pc' = "catch"
    /\ UNCHANGED <<rlVars, pureVars, session, trace, appended, result, locals>>

\* deleteEmail's catch
DeleteCatch(tr) ==
    [trace |-> auditLog(tr, "ERROR", "Failed to delete email", ""),
     thrown |-> "Failed to delete email: Error"]

\* a failed metadata fetch that is swallowed: the delete goes ahead
DeleteMetadataFailIgnored ==
    /\ pc = "deleteEmail"
    /\ ~InvalidText(args.messageId)
    /\ trace' = ApiCall(trace, "messages.get", "fail", "")
    /\ pc' = "delete_call"
    /\ UNCHANGED <<rlVars, pureVars, session, appended, raised, result, locals>>

\* messages.get({format: 'metadata'}) fails
DeleteMetadataFail ==
    /\ pc = "deleteEmail"
    /\ ~InvalidText(args.messageId)
    /\ LET c == DeleteCatch(ApiCall(trace, "messages.get", "fail", "")) IN
        /\ trace' = c.trace
        /\ raised' = c.thrown
    /\ appended' = Appended(appended, 1)
    /\ pc' = afterAuditLog("catch")
    /\ UNCHANGED <<rlVars, pureVars, session, result, locals>>

DeleteMetadataOk ==
    /\ pc = "deleteEmail"
    /\ ~InvalidText(args.messageId)
    /\ trace' = ApiCall(trace, "messages.get", "ok", "")
    /\ pc' = "delete_call"
    /\ UNCHANGED <<rlVars, pureVars, session, appended, raised, result, locals>>

\* messages.delete fails
DeleteFail ==
    /\ pc = "delete_call"
    /\ LET c == DeleteCatch(ApiCall(trace, "messages.delete", "fail", "")) IN
        /\ trace' = c.trace
        /\ raised' = c.thrown
    /\ appended' = Appended(appended, 1)
    /\ pc' = afterAuditLog("catch")
    /\ UNCHANGED <<rlVars, pureVars, session, result, locals>>

\* messages.delete succeeds: the WARN entry, then the payload
DeleteOk ==
    /\ pc = "delete_call"
    /\ trace' = auditLog(ApiCall(trace, "messages.delete", "ok", ""),
                         "WARN", "Email deleted", "")
    /\ appended' = Appended(appended, 1)
    /\ result' = Payload("permanently_deleted")
    /\ pc' = afterAuditLog("done")
    /\ UNCHANGED <<rlVars, pureVars, session, raised, locals>>

\* ------------------------------------------------------------ the response

\* a response that takes the timestamp of a call that failed out of the
\* limiter's history again
RespondRefunding ==
    /\ pc = "done"
    /\ pc' = "idle"
    /\ name' = ""
    /\ args' = NoArgs
    /\ trace' = <<>>
    /\ appended' = 0
    /\ raised' = ""
    /\ result' = NoResult
    /\ spam' = NoSpam
    /\ search' = NoSearch
    /\ sent' = <<>>
    /\ requests' = IF result.kind = "error" /\ result.text # RateLimitMsg
                   THEN [requests EXCEPT !["default"] = SubSeq(@, 1, Len(@) - 1)]
                   ELSE requests
    /\ UNCHANGED <<clock, admitted, rlResult, pureVars, gmail, auth, fsOk>>

\* The call's result or failure has gone to the caller; the next call may come.
Respond ==
    /\ pc = "done"
    /\ pc' = "idle"
    /\ name' = ""
    /\ args' = NoArgs
    /\ trace' = <<>>
    /\ appended' = 0
    /\ raised' = ""
    /\ result' = NoResult
    /\ spam' = NoSpam
    /\ search' = NoSearch
    /\ sent' = <<>>
    /\ UNCHANGED <<rlVars, pureVars, gmail, auth, fsOk>>

\* ------------------------------------------------------------------ inputs

GoodAddress == <<"a", "@", "b", ".", "c", "o">>
NoDotAddress == <<"a", "@", "b">>
PlainAddress == <<"n", "o", "t", "-", "a", "n", "-", "e", "m", "a", "i", "l">>

GoodSend ==
    [NoArgs EXCEPT !.toKind = "array", !.to = <<GoodAddress>>,
                   !.subjectKind = "string", !.subject = <<"H", "i">>,
                   !.bodyKind = "string", !.body = <<"x">>]

SendArgs ==
    {GoodSend,
     [GoodSend EXCEPT !.toKind = "undefined", !.to = <<>>],
     [GoodSend EXCEPT !.toKind = "string", !.to = <<>>],
     [GoodSend EXCEPT !.to = <<>>],
     [GoodSend EXCEPT !.to = <<NoDotAddress>>],
     [GoodSend EXCEPT !.to = <<GoodAddress, PlainAddress>>],
     [GoodSend EXCEPT !.cc = <<PlainAddress>>],
     [GoodSend EXCEPT !.cc = <<GoodAddress>>, !.bcc = <<NoDotAddress>>],
     [GoodSend EXCEPT !.cc = <<GoodAddress>>, !.bcc = <<GoodAddress>>],
     [GoodSend EXCEPT !.subjectKind = "undefined", !.subject = <<>>],
     [GoodSend EXCEPT !.subjectKind = "number", !.subject = <<>>],
     [GoodSend EXCEPT !.subject = <<>>],
     [GoodSend EXCEPT !.subject = <<"<", "b", ">", "H", "i", " ">>],
     [GoodSend EXCEPT !.subject = <<"H", "i", "\n", "B", "c", "c", ":", " ",
                                    "x", "@", "y">>],
     [GoodSend EXCEPT !.subject = Repeat("s", MaxSubjectLen)],
     [GoodSend EXCEPT !.subject = Repeat("s", MaxSubjectLen + 1)],
     [GoodSend EXCEPT !.bodyKind = "undefined", !.body = <<>>],
     [GoodSend EXCEPT !.body = <<" ", "<", "p", ">", "x", "\n">>],
     [GoodSend EXCEPT !.body = Repeat("b", MaxBodyLen)],
     [GoodSend EXCEPT !.body = Repeat("b", MaxBodyLen + 1)]}

TextValues == {"undefined", "empty", "string", "number"}

ToolNames == DOMAIN HandlerOf \cup {"no_such_tool"}

ArgsFor(nm) ==
    CASE nm = "empty_spam" ->
            {[NoArgs EXCEPT !.confirm = c] :
                c \in {"true", "false", "undefined", "string"}}
      [] nm = "send_email" -> SendArgs
      [] nm = "search_emails" ->
            {[NoArgs EXCEPT !.query = q, !.maxResults = m] :
                q \in {"undefined", "string"}, m \in {<<>>, <<1>>, <<100>>}}
      [] nm \in {"read_email", "read_email_html", "list_attachments",
                 "delete_email"} ->
            {[NoArgs EXCEPT !.messageId = v] : v \in TextValues}
      [] nm = "download_attachment" ->
            {[NoArgs EXCEPT !.messageId = v, !.attachmentId = w, !.filename = f] :
                v \in {"undefined", "string", "number"},
                w \in {"undefined", "string"},
                f \in {"undefined", "report.pdf"}}
      [] OTHER -> {NoArgs}

\* spam folders: n messages, noId without an id, delFails not deletable
Folders(sizes) ==
    UNION {{[n |-> n, noId |-> x, delFails |-> f] :
                x \in SUBSET (1..n), f \in SUBSET (1..n)} : n \in sizes}

SmallFolders == Folders(0..MaxSmallSpam)
ExhaustiveFolders == Folders(0..MaxExhaustiveSpam)

BigFolders ==
    UNION {{[n |-> n, noId |-> x, delFails |-> f] :
                x \in {{}, {n}}, f \in {{}, {1, n}, 1..n}} :
           n \in {batchSize, batchSize + 1, 2 * batchSize, MaxSpam}}

Listings == UNION {[1..n -> BOOLEAN] : n \in 0..MaxListed}

\* ------------------------------------------------------- the specifications

Next ==
    \/ \E nm \in ToolNames : \E a \in ArgsFor(nm) : \E delta \in ClockDeltas :
        \E writable \in BOOLEAN : Receive(nm, a, delta, writable)
    \/ AuthCredentialsFail
    \/ AuthTokenFail
    \/ AuthOk
    \/ LogCall
    \/ Dispatch
    \/ Catch
    \/ Respond
    \/ EmptySpamRefuse
    \/ EmptySpamStart
    \/ SpamListFail
    \/ \E folder \in SmallFolders : SpamListOk(folder)
    \/ SpamBatch
    \/ SpamVisit
    \/ SpamBatchEnd
    \/ SpamFinish
    \/ SendReject
    \/ SendAttempt
    \/ SendOk
    \/ SendFail
    \/ SearchReject
    \/ SearchListFail
    \/ \E listing \in Listings : SearchListOk(listing)
    \/ SearchSkip
    \/ SearchGetOk
    \/ SearchGetFail
    \/ SearchReturn
    \/ ReadReject \/ ReadOk \/ ReadFail
    \/ ReadHtmlReject \/ ReadHtmlOk \/ ReadHtmlFail
    \/ ListLabelsOk \/ ListLabelsFail
    \/ ListAttachmentsReject \/ ListAttachmentsOk \/ ListAttachmentsFail
    \/ DownloadReject
    \/ \E outcome \in {"fail", "nodata"} : DownloadGetFail(outcome)
    \/ \E written \in BOOLEAN : DownloadWrite(written)
    \/ DeleteReject
    \/ DeleteMetadataFail
    \/ DeleteMetadataOk
    \/ DeleteFail
    \/ DeleteOk

Spec == Init /\ [][Next]_vars

\* empty_spam calls only, one per window, over large folders
NextSpam ==
    \/ \E a \in ArgsFor("empty_spam") : \E writable \in BOOLEAN :
        Receive("empty_spam", a, windowMs, writable)
    \/ AuthCredentialsFail
    \/ AuthTokenFail
    \/ AuthOk
    \/ LogCall
    \/ Dispatch
    \/ Catch
    \/ Respond
    \/ EmptySpamRefuse
    \/ EmptySpamStart
    \/ SpamListFail
    \/ \E folder \in ExhaustiveFolders \cup BigFolders : SpamListOk(folder)
    \/ SpamBatch
    \/ SpamVisit
    \/ SpamBatchEnd
    \/ SpamFinish

SpecSpam == Init /\ [][NextSpam]_vars

\* ------------------------------------------------- the rate limiter alone

NextRL == \E now \in ClockReadings : RLCall(now)

SpecRL == Init /\ [][NextRL]_vars

\* Timestamps of admitted that lie in the window ending at now.
AdmittedInWindow(now) ==
    {k \in DOMAIN admitted : admitted[k] > now - windowMs /\ admitted[k] <= now}

\* C1: at most maxRequests calls are admitted in any window of windowMs, and
\* a call is denied exactly while maxRequests admitted timestamps t still
\* satisfy t > now - windowMs.
C1_AtMostCeilingPerWindow ==
    /\ [](\A k \in DOMAIN admitted :
            Cardinality(AdmittedInWindow(admitted[k])) <= maxRequests)
    /\ [][\A now \in ClockReadings :
            RLCall(now) =>
                /\ (Cardinality(AdmittedInWindow(now)) >= maxRequests
                        => rlResult' = "denied" /\ admitted' = admitted)
                /\ (Cardinality(AdmittedInWindow(now)) < maxRequests
                        => rlResult' = "allowed")]_vars

\* A call denied after the window has slid once: 50 admitted at the start,
\* more admitted one window later, then the ceiling again.
C1_Witness ==
    /\ rlResult = "denied"
    /\ clock = windowMs
    /\ Len(admitted) > maxRequests

\* ------------------------------------------------------------- dispatcher

\* C2: a call the rate limiter denies fails with the rate-limit error and
\* does nothing else: no authentication, no audit entry, no handler, no
\* mail-API call, no file write, and the session state is left as it was.
C2_DeniedCallDoesNothing ==
    [][(/\ pc = "idle"
        /\ pc' # "idle"
        /\ ~checkRateLimit(requests, "default", clock').allowed)
       => /\ pc' = "done"
          /\ result' = Failure(RateLimitMsg)
          /\ trace' = <<>>
          /\ appended' = 0
          /\ sent' = <<>> /\ spam' = NoSpam /\ search' = NoSearch
          /\ UNCHANGED <<gmail, auth>>]_vars

\* A call denied while the server has no mail-client handle yet.
C2_Witness ==
    /\ pc = "done"
    /\ result = Failure(RateLimitMsg)
    /\ gmail = "null"
    /\ Len(requests["default"]) = maxRequests

ValidationMessages ==
    {"Recipients (to) must be a non-empty array",
     "Subject must be a string with max 255 characters",
     "Body must be a string with max 10000 characters",
     "Invalid email address"}

\* The send_email arguments C3 names.
C3_BadSend(a) ==
    \/ a.toKind # "array"
    \/ Len(a.to) = 0
    \/ Len(a.subject) > 255
    \/ Len(a.body) > 10000
    \/ \E k \in DOMAIN a.to : ~validateEmail(a.to[k])
    \/ \E k \in DOMAIN a.cc : ~validateEmail(a.cc[k])
    \/ \E k \in DOMAIN a.bcc : ~validateEmail(a.bcc[k])

\* C3: send_email with a subject over 255 characters, a body over 10000, an
\* empty or non-array to, or an address that fails validateEmail is rejected
\* with a validation error before the send operation is called and before
\* the 'Email send attempt' audit entry; nothing is sent, truncated or not.
C3_BadSendRejectedBeforeSend ==
    (name = "send_email" /\ C3_BadSend(args))
        => /\ ~Has(trace, "api", "messages.send")
           /\ ~Has(trace, "audit", "Email send attempt")
           /\ sent = <<>>
           /\ pc # "send_call"
           /\ (pc = "done" /\ Has(trace, "invoke", "sendEmail"))
                => /\ result.kind = "error"
                   /\ result.text \in ValidationMessages

\* A send_email call with a 256-character subject has been rejected.
C3_Witness ==
    /\ pc = "done"
    /\ name = "send_email"
    /\ Len(args.subject) = 256
    /\ Has(trace, "invoke", "sendEmail")
    /\ result = Failure("Subject must be a string with max 255 characters")

\* C4: empty_spam with confirm:false returns the refusal payload; the
\* handler makes no mail-API call and writes no audit entry (the invocation
\* is the last event of the call), and nothing is listed or deleted.
C4_RefusalHasNoEffects ==
    (name = "empty_spam" /\ args.confirm = "false"
        /\ Has(trace, "invoke", "emptySpam"))
        => /\ trace[Len(trace)].kind = "invoke"
           /\ ApiCallsOf(trace) = <<>>
           /\ pc \in {"emptySpam", "done"}
           /\ spam = NoSpam
           /\ pc = "done" => result = Payload(RefusalText)

\* empty_spam with confirm:false has returned its refusal.
C4_Witness ==
    /\ pc = "done"
    /\ name = "empty_spam"
    /\ args.confirm = "false"
    /\ result = Payload(RefusalText)

\* --------------------------------------------------------------- emptySpam

\* what the trace says of the loop
BatchSizes(tr) ==
    LET b == SelectSeq(tr, LAMBDA e : e.kind = "batch") IN
    [k \in DOMAIN b |-> b[k].ref]
Pauses(tr) == Len(SelectSeq(tr, LAMBDA e : e.kind = "pause"))
DeleteFailures(tr) ==
    Len(SelectSeq(tr, LAMBDA e : e.kind = "api" /\ e.tag = "messages.delete"
                                  /\ e.level = "fail"))
WithoutId(messages) == Cardinality({k \in DOMAIN messages : ~messages[k]})

CeilDiv(n, d) == (n + d - 1) \div d

\* ceil(n/50) batches of 50, the last one possibly smaller
ExpectedBatches(n) ==
    [b \in 1..CeilDiv(n, 50) |->
        ToString(IF b * 50 <= n THEN 50 ELSE n - (b - 1) * 50)]

\* every pause lies between two batches
PausesOnlyBetweenBatches(tr) ==
    \A k \in DOMAIN tr :
        tr[k].kind = "pause" =>
            /\ \E m \in 1..(k - 1) : tr[m].kind = "batch"
            /\ k < Len(tr) /\ tr[k + 1].kind = "batch"

\* an emptySpam run over a non-empty listing has returned
SpamRunDone == pc = "done" /\ Len(spam.messages) > 0

\* C5 as stated: over n > 0 listed messages, ceil(n/50) batches of 50 (the
\* last possibly smaller), ceil(n/50) - 1 pauses, all between batches, and
\* deletedCount = n minus the per-message delete failures.
C5_AsStated ==
    SpamRunDone =>
        LET n == Len(spam.messages) IN
        /\ BatchSizes(trace) = ExpectedBatches(n)
        /\ Pauses(trace) = CeilDiv(n, 50) - 1
        /\ PausesOnlyBetweenBatches(trace)
        /\ result.deletedCount = n - DeleteFailures(trace)

\* C5 (amended): the same batches and pauses, and deletedCount = n minus the
\* per-message delete failures minus the listed messages without an id.
C5_BatchesPausesAndCount ==
    SpamRunDone =>
        LET n == Len(spam.messages) IN
        /\ BatchSizes(trace) = ExpectedBatches(n)
        /\ Pauses(trace) = CeilDiv(n, 50) - 1
        /\ PausesOnlyBetweenBatches(trace)
        /\ result.deletedCount
                = n - DeleteFailures(trace) - WithoutId(spam.messages)

\* 120 messages, some deletes rejected: batches 50, 50, 20 and 2 pauses.
C5_Witness ==
    /\ SpamRunDone
    /\ Len(spam.messages) = 120
    /\ BatchSizes(trace) = <<"50", "50", "20">>
    /\ Pauses(trace) = 2
    /\ DeleteFailures(trace) = 2
    /\ result.deletedCount = 118

\* the listed messages whose delete succeeded, by the trace
DeletedOk(tr) ==
    LET refs == {tr[p].ref : p \in {q \in DOMAIN tr :
                    /\ tr[q].kind = "api" /\ tr[q].tag = "messages.delete"
                    /\ tr[q].level = "ok"}}
    IN {k \in DOMAIN spam.messages : ToString(k) \in refs}

\* C6: a failed delete is logged as an ERROR audit entry and skipped; the
\* loop goes on, each listed message's delete is attempted at most once,
\* deleted messages stay deleted, and the call returns the success payload
\* with totalFound and deletedCount and never raises.
C6_DeleteFailureSkipped ==
    Len(spam.messages) > 0 =>
        /\ \A k \in DOMAIN spam.attempts : spam.attempts[k] <= 1
        /\ \A p \in DOMAIN trace :
            (trace[p].kind = "api" /\ trace[p].tag = "messages.delete"
                /\ trace[p].level = "fail")
            => /\ p < Len(trace)
               /\ trace[p + 1] = Event("audit", "Failed to delete spam email",
                                       "ERROR", trace[p].ref)
        /\ spam.box = (DOMAIN spam.messages) \ DeletedOk(trace)
        /\ pc # "catch"
        /\ raised = ""
        /\ pc = "done" =>
            /\ result.kind = "payload"
            /\ result.text = EmptiedText
            /\ result.totalFound = Len(spam.messages)
            /\ result.deletedCount = Cardinality(DeletedOk(trace))
            /\ \A k \in DOMAIN spam.messages :
                spam.messages[k] => spam.attempts[k] = 1

\* A run in which the first delete failed and a later one succeeded.
C6_Witness ==
    /\ SpamRunDone
    /\ Has(trace, "audit", "Failed to delete spam email")
    /\ 1 \in spam.box
    /\ 2 \in DeletedOk(trace)
    /\ result.deletedCount < result.totalFound

\* ---------------------------------------------------------- authentication

C8_TokenFailureTellsOperator ==
    (pc = "done"
        /\ \E k \in DOMAIN trace : trace[k] = Event("authenticate", "token", "fail", ""))
        => result = Failure("Authentication required. Please run: npm run auth")

\* ------------------------------------------------------------ the switch

DispatchedNames ==
    {"search_emails", "read_email", "read_email_html", "list_attachments",
     "download_attachment", "delete_email", "empty_spam", "send_email",
     "list_labels"}

\* C9: a name outside the nine dispatched names fails with 'Unknown tool',
\* with no handler invoked and no mail-API call; a call of an advertised
\* name that has passed the switch has invoked exactly one handler.
C9_UnknownToolAndRouting ==
    /\ (name # "" /\ name \notin DispatchedNames)
        => /\ InvokesOf(trace) = <<>>
           /\ ApiCallsOf(trace) = <<>>
           /\ (pc = "done" /\ Has(trace, "audit", "Tool called"))
                => result = Failure("Unknown tool: " \o name)
    /\ (name \in AdvertisedTools /\ Has(trace, "audit", "Tool called")
            /\ pc \notin {"log_call", "dispatch"})
        => /\ Len(InvokesOf(trace)) = 1
           /\ InvokesOf(trace)[1].ref = name
           /\ InvokesOf(trace)[1].tag # ""

\* An unknown tool name has been turned down after the audit entry.
C9_Witness ==
    /\ pc = "done"
    /\ name = "no_such_tool"
    /\ Has(trace, "audit", "Tool called")
    /\ result = Failure("Unknown tool: no_such_tool")

\* C10: when a dispatched handler raises, the dispatcher appends an ERROR
\* audit entry naming the tool and then fails the call with that same
\* error; the handler has been invoked once only.
C10_HandlerErrorLoggedAndPropagated ==
    /\ pc = "catch" => raised # ""
    /\ (pc = "done" /\ raised # "")
        => /\ trace[Len(trace)] = Event("audit", "Tool failed", "ERROR", name)
           /\ result = Failure(raised)
           /\ Len(InvokesOf(trace)) <= 1
           /\ Len(SelectSeq(trace, LAMBDA e : e.kind = "audit"
                                        /\ e.tag = "Tool failed")) = 1

\* A handler's mail-API failure has been logged and passed on.
C10_Witness ==
    /\ pc = "done"
    /\ name = "read_email"
    /\ raised = "Failed to read email: Error"
    /\ result = Failure(raised)
    /\ Len(InvokesOf(trace)) = 1

\* ----------------------------------------------------- send confirmation

\* C11: no message is handed to messages.send unless the call carried a
\* satisfied confirmation, as the description of send_email announces
\* ('Send a new email (requires confirmation)').
C11_SendNeedsConfirmation ==
    (name = "send_email" /\ Has(trace, "api", "messages.send"))
        => Confirmed(args)

\* -------------------------------------------------- shape of the arguments

\* the required fields of each tool, by the shape its input schema declares
RequiredStrings(nm) ==
    CASE nm = "search_emails" -> {"query"}
      [] nm \in {"read_email", "read_email_html", "list_attachments",
                 "delete_email"} -> {"messageId"}
      [] nm = "download_attachment" -> {"messageId", "attachmentId"}
      [] OTHER -> {}

\* a required field of the call is absent or not of the declared shape
BadShape(nm, a) ==
    \/ \E f \in RequiredStrings(nm) : ~IsString(a[f])
    \/ nm = "send_email"
        /\ (a.toKind # "array" \/ a.subjectKind # "string"
                \/ a.bodyKind # "string")
    \/ nm = "empty_spam" /\ a.confirm \notin {"true", "false"}

\* C12: a call whose required fields are absent or not of the expected
\* primitive shape is rejected before any mail-API call, and empty_spam
\* lists and deletes only when confirm is the boolean true.
C12_BadShapeRejectedBeforeApi ==
    /\ BadShape(name, args) => ApiCallsOf(trace) = <<>>
    /\ (name = "empty_spam" /\ ApiCallsOf(trace) # <<>>)
        => args.confirm = "true"

\* ------------------------------------------------------------ delete_email

\* C13: delete_email fetches the metadata before it issues the permanent
\* delete; after a failed metadata fetch no delete is issued; the
\* 'Email deleted' WARN entry is written only right after a delete that
\* succeeded.
C13_MetadataThenDeleteThenAudit ==
    name = "delete_email" =>
        \A p \in DOMAIN trace :
            /\ (trace[p].kind = "api" /\ trace[p].tag = "messages.delete")
                => /\ \E q \in 1..(p - 1) :
                        trace[q] = Event("api", "messages.get", "ok", "")
                   /\ \A q \in DOMAIN trace :
                        trace[q] # Event("api", "messages.get", "fail", "")
            /\ (trace[p].kind = "audit" /\ trace[p].tag = "Email deleted")
                => /\ trace[p].level = "WARN"
                   /\ p > 1
                   /\ trace[p - 1] = Event("api", "messages.delete", "ok", "")

\* A message has been deleted: metadata, delete, audit entry, payload.
C13_Witness ==
    /\ pc = "done"
    /\ name = "delete_email"
    /\ result = Payload("permanently_deleted")
    /\ Has(trace, "api", "messages.get")
    /\ trace[Len(trace)] = Event("audit", "Email deleted", "WARN", "")

\* ----------------------------------------------------------- search_emails

\* full-size listings: as many messages as the default and the ceiling
\* allow and one more, every message with an id or the last one without
BigListings ==
    UNION {{[k \in 1..n |-> k \notin x] : x \in {{}, {n}}} :
           n \in {defaultMaxResults, defaultMaxResults + 1,
                  maxResultsCap, maxResultsCap + 1}}

\* search_emails calls only, one per window, over full-size listings
NextSearch ==
    \/ \E a \in ArgsFor("search_emails") : \E writable \in BOOLEAN :
        Receive("search_emails", a, windowMs, writable)
    \/ AuthCredentialsFail
    \/ AuthTokenFail
    \/ AuthOk
    \/ LogCall
    \/ Dispatch
    \/ Catch
    \/ Respond
    \/ SearchReject
    \/ SearchListFail
    \/ \E listing \in Listings \cup BigListings : SearchListOk(listing)
    \/ SearchSkip
    \/ SearchGetOk
    \/ SearchGetFail
    \/ SearchReturn

SpecSearch == Init /\ [][NextSearch]_vars

\* the positions of listing that carry an id, in list order
IdPositions(listing) ==
    SelectSeq([k \in 1..Len(listing) |-> k], LAMBDA k : listing[k])

\* the metadata fetches of a trace, in the order they were issued
MetadataFetches(tr) ==
    SelectSeq(tr, LAMBDA e : e.kind = "api" /\ e.tag = "messages.get")

\* C14: search_emails asks messages.list for min(maxResults, 50) messages
\* (maxResults 10 when omitted), so no search lists or returns more than
\* 50 messages, and it issues one metadata fetch per listed message that
\* has an id, in list order.
C14_CappedListingOneFetchEach ==
    (name = "search_emails" /\ Has(trace, "api", "messages.list")) =>
        LET wanted == IF args.maxResults = <<>> THEN 10 ELSE args.maxResults[1]
            fetches == MetadataFetches(trace)
            withId == IdPositions(search.messages)
        IN  /\ search.asked = (IF wanted < 50 THEN wanted ELSE 50)
            /\ Len(search.messages) <= 50
            /\ Len(fetches) <= Len(withId)
            /\ \A j \in DOMAIN fetches : fetches[j].ref = ToString(withId[j])
            /\ (pc = "done" /\ result.kind = "payload")
                => /\ Len(fetches) = Len(withId)
                   /\ result.totalFound = Len(withId)
                   /\ result.totalFound <= 50

\* A search asking for 100 has listed 50 messages, one of them without an
\* id, and fetched the metadata of the other 49.
C14_Witness ==
    /\ pc = "done"
    /\ name = "search_emails"
    /\ args.maxResults = <<100>>
    /\ Len(search.messages) = 50
    /\ Len(MetadataFetches(trace)) = 49
    /\ result.totalFound = 49

\* ------------------------------------------------- the two helpers alone

\* the characters the strings under test are made of
Alphabet == {"a", ".", "@", " ", "<", ">"}

\* "<script>x</script>  "
ScriptText ==
    <<"<", "s", "c", "r", "i", "p", "t", ">", "x",
      "<", "/", "s", "c", "r", "i", "p", "t", ">", " ", " ">>

\* every string over Alphabet of at most MaxStrLen characters, and the
\* strings the helpers are documented with
Strings ==
    UNION {[1..n -> Alphabet] : n \in 0..MaxStrLen}
        \cup {ScriptText, GoodAddress, NoDotAddress, PlainAddress}

InitHelpers ==
    /\ InitServer
    /\ str \in Strings
    /\ cleaned = NoOutput
    /\ accepted = NoVerdict
    /\ NoPayload
    /\ NoFile
    /\ calls = <<>>

\* this.sanitizeInput(str)
Sanitize ==
    /\ ~cleaned.done
    /\ cleaned' = [done |-> TRUE, value |-> sanitizeInput(str)]
    /\ UNCHANGED <<rlVars, callVars, str, accepted, mimeVars, pathVars, calls>>

\* this.validateEmail(str)
Validate ==
    /\ ~accepted.done
    /\ accepted' = [done |-> TRUE, value |-> validateEmail(str)]
    /\ UNCHANGED <<rlVars, callVars, str, cleaned, mimeVars, pathVars, calls>>

NextHelpers == Sanitize \/ Validate

SpecHelpers == InitHelpers /\ [][NextHelpers]_vars

\* s without its angle brackets, the other characters in their order
WithoutBrackets(s) ==
    LET kept == SelectSeq([k \in 1..Len(s) |-> k],
                          LAMBDA k : s[k] \notin {"<", ">"})
    IN [j \in 1..Len(kept) |-> s[kept[j]]]

\* out is s without the white space around it
IsTrimOf(out, s) ==
    /\ \E a \in 1..(Len(s) + 1) : \E b \in 0..Len(s) :
        /\ out = SubSeq(s, a, b)
        /\ \A k \in 1..(a - 1) : s[k] \in WhiteSpace
        /\ \A k \in (b + 1)..Len(s) : s[k] \in WhiteSpace
    /\ out # <<>> => out[1] \notin WhiteSpace /\ out[Len(out)] \notin WhiteSpace

\* C15: sanitizeInput returns its input with every '<' and '>' removed and
\* the surrounding white space trimmed, the other characters in order
\* ("<script>x</script>  " gives "scriptx/script"); its output holds no
\* angle bracket and sanitizing it again changes nothing.
C15_SanitizeStripsTrimsIdempotent ==
    cleaned.done =>
        /\ IsTrimOf(cleaned.value, WithoutBrackets(str))
        /\ \A k \in DOMAIN cleaned.value : cleaned.value[k] \notin {"<", ">"}
        /\ sanitizeInput(cleaned.value) = cleaned.value
        /\ str = ScriptText
            => cleaned.value = <<"s", "c", "r", "i", "p", "t", "x", "/",
                                 "s", "c", "r", "i", "p", "t">>

\* "<script>x</script>  " has been sanitized.
C15_Witness ==
    /\ cleaned.done
    /\ str = ScriptText
    /\ Len(cleaned.value) = 14

\* a non-empty run of characters, none of them white space or "@"
IsRun(s) ==
    /\ s # <<>>
    /\ \A k \in DOMAIN s : s[k] \notin WhiteSpace \cup {"@"}

\* C16: validateEmail accepts a string exactly when it is a run, "@", a
\* run, ".", a run, each run non-empty and free of white space and "@"
\* ("a@b.co" is accepted, "not-an-email" and "a@b" are rejected).
C16_ValidateEmailShape ==
    accepted.done =>
        /\ accepted.value
            <=> \E i \in DOMAIN str : \E j \in DOMAIN str :
                    /\ i < j
                    /\ str[i] = "@"
                    /\ str[j] = "."
                    /\ IsRun(SubSeq(str, 1, i - 1))
                    /\ IsRun(SubSeq(str, i + 1, j - 1))
                    /\ IsRun(SubSeq(str, j + 1, Len(str)))
        /\ str = GoodAddress => accepted.value
        /\ str \in {PlainAddress, NoDotAddress} => ~accepted.value

\* "a@b.co" has been accepted.
C16_Witness ==
    /\ accepted.done
    /\ str = GoodAddress
    /\ accepted.value

\* ------------------------------------------------- the limiter's history

\* the timestamps stored for clientId, none when it has no entry
History(reqs, clientId) ==
    IF clientId \in DOMAIN reqs THEN reqs[clientId] ELSE <<>>

\* C17: a denied checkRateLimit call leaves the stored history as it was;
\* only an admitted call changes it, to the timestamps still inside the
\* window followed by the current time.
C17_DeniedCallKeepsHistory ==
    [][\A now \in ClockReadings :
        RLCall(now) =>
            LET old == History(requests, "default")
                inWindow == SelectSeq(old, LAMBDA t : t > now - windowMs)
            IN  /\ rlResult' = "denied" => requests' = requests
                /\ rlResult' = "allowed"
                    => History(requests', "default") = Append(inWindow, now)
                /\ requests' # requests => rlResult' = "allowed"]_vars

\* A call at the last instant of the window has been denied with the 50
\* timestamps of the window's start still stored.
C17_Witness ==
    /\ rlResult = "denied"
    /\ clock = windowMs - 1
    /\ Len(History(requests, "default")) = maxRequests
    /\ History(requests, "default")[1] = 0

\* C20: with clock readings that never decrease, the timestamps stored for
\* each client id never decrease in the order they were inserted.
C20_HistoryNonDecreasing ==
    \A c \in DOMAIN requests :
        \A i \in DOMAIN requests[c] : \A j \in DOMAIN requests[c] :
            i < j => requests[c][i] <= requests[c][j]

\* The history holds the timestamps of two different clock readings.
C20_Witness ==
    /\ Len(History(requests, "default")) >= 2
    /\ History(requests, "default")[1] = windowMs - 1
    /\ History(requests, "default")[Len(History(requests, "default"))]
            = windowMs

\* ------------------------------------------------- the 'Tool called' entry

\* the audit entries authenticate writes
AuthenticationTags ==
    {"Authentication successful", "Authentication failed",
     "Token validation failed"}

\* an event of the switch or of a handler: a mail-API call, a file write,
\* or an audit entry other than those of authenticate and 'Tool called'
AfterTheEntry(e) ==
    \/ e.kind \in {"invoke", "api", "fs", "batch", "pause"}
    \/ e.kind = "audit" /\ e.tag \notin AuthenticationTags \cup {"Tool called"}

\* the call has passed the rate limiter, authentication and the entry
PassedTheEntry ==
    /\ pc \notin {"idle", "authenticate", "log_call"}
    /\ result # Failure(RateLimitMsg)
    /\ \A k \in DOMAIN trace :
        trace[k].kind = "authenticate" => trace[k].level = "ok"

\* C18: every call that passes the rate limiter and authentication, one
\* with an unknown tool name included, has one INFO 'Tool called' entry
\* naming the tool, appended before any mail-API call, file write or
\* further audit entry of the call.
C18_ToolCalledEntryFirst ==
    LET entry == Event("audit", "Tool called", "INFO", name) IN
    /\ PassedTheEntry
        => Cardinality({p \in DOMAIN trace : trace[p] = entry}) = 1
    /\ \A p \in DOMAIN trace :
        AfterTheEntry(trace[p]) => \E q \in 1..(p - 1) : trace[q] = entry

\* A call of an unknown tool has its entry and is about to be turned down.
C18_Witness ==
    /\ pc = "catch"
    /\ name = "no_such_tool"
    /\ raised = "Unknown tool: no_such_tool"
    /\ trace[Len(trace)] = Event("audit", "Tool called", "INFO", name)

\* ----------------------------------------------- audit entries not written

\* where the code goes on after the audit entry with this tag
PositionAfter(tag) ==
    CASE tag = "Authentication successful" -> "log_call"
      [] tag = "Tool called" -> "dispatch"
      [] tag = "Starting spam folder cleanup" -> "spam_list"
      [] tag = "Failed to delete spam email" -> "spam_msg"
      [] tag = "Email send attempt" -> "send_call"
      [] tag \in {"Failed to empty spam folder", "Email send failed",
                  "Failed to download attachment", "Failed to delete email"}
            -> "catch"
      [] OTHER -> "done"

\* the audit entries a step has added to the trace
NewAudits ==
    {p \in (Len(trace) + 1)..Len(trace') : trace'[p].kind = "audit"}

\* C19: a failure to write an audit entry neither aborts the call nor
\* changes its outcome: after every auditLog call the code goes on to the
\* same position whether or not the line was written, only the lines in
\* the file differ, and a call none of whose lines could be written ends
\* with a payload or with an error of the dispatcher or handler.
C19_AuditFailureChangesNothing ==
    /\ [][(pc # "idle" /\ NewAudits # {})
            => /\ pc' = PositionAfter(trace'[Len(trace')].tag)
               /\ trace'[Len(trace')].kind = "audit"
               /\ appended' = IF fsOk THEN appended + Cardinality(NewAudits)
                                      ELSE appended]_vars
    /\ [](pc = "done" /\ ~fsOk
            => /\ appended = 0
               /\ result.kind \in {"payload", "error"}
               /\ result.kind = "error"
                    => result.text \in {RateLimitMsg, AuthFailedMsg, raised})

\* A message has been deleted and the payload returned although neither
\* the 'Tool called' nor the 'Email deleted' line could be written.
C19_Witness ==
    /\ pc = "done"
    /\ ~fsOk
    /\ appended = 0
    /\ name = "delete_email"
    /\ result = Payload("permanently_deleted")
    /\ Has(trace, "audit", "Tool called")
    /\ Has(trace, "audit", "Email deleted")

\* ------------------------------------------- readEmailHtml's extractContent

\* what extractContent looks at in a part: its mimeType, whether body.data,
\* filename and body.attachmentId are there
PartKinds ==
    {[mimeType |-> "text/html", data |-> TRUE, filename |-> FALSE,
      attachmentId |-> FALSE],
     [mimeType |-> "text/html", data |-> FALSE, filename |-> FALSE,
      attachmentId |-> FALSE],
     [mimeType |-> "text/plain", data |-> TRUE, filename |-> FALSE,
      attachmentId |-> FALSE],
     [mimeType |-> "multipart/mixed", data |-> FALSE, filename |-> FALSE,
      attachmentId |-> FALSE],
     [mimeType |-> "application/pdf", data |-> FALSE, filename |-> TRUE,
      attachmentId |-> TRUE],
     [mimeType |-> "image/png", data |-> TRUE, filename |-> TRUE,
      attachmentId |-> FALSE]}

\* the trees of n parts: part 1 is message.payload, every other part is in
\* the parts of an earlier one, in the order of the numbers
ParentMaps(n) ==
    {f \in [1..n -> 0..(n - 1)] :
        f[1] = 0 /\ \A k \in 2..n : f[k] \in 1..(k - 1)}

\* the tree with the parts kinds and the parents up
PartTree(kinds, up) ==
    [k \in DOMAIN kinds |-> [part |-> kinds[k], parent |-> up[k]]]

\* payload.parts
parts(tree, k) ==
    SelectSeq([c \in 1..Len(tree) |-> c], LAMBDA c : tree[c].parent = k)

\* an extractContent that keeps the body it found first
visitKeepingFirst(acc, part, k) ==
    LET seen == IF ~part.data THEN acc
                ELSE IF part.mimeType = "text/html"
                THEN [acc EXCEPT !.htmlBody = IF @ = 0 THEN k ELSE @]
                ELSE IF part.mimeType = "text/plain"
                THEN [acc EXCEPT !.textBody = IF @ = 0 THEN k ELSE @]
                ELSE acc
    IN IF part.filename /\ part.attachmentId
       THEN [seen EXCEPT !.attachmentCount = @ + 1]
       ELSE seen

\* extractContent on one part, before it goes down into payload.parts: the
\* content of part k is written k
visit(acc, part, k) ==
    LET seen == IF ~part.data THEN acc
                ELSE IF part.mimeType = "text/html"
                THEN [acc EXCEPT !.htmlBody = k]
                ELSE IF part.mimeType = "text/plain"
                THEN [acc EXCEPT !.textBody = k]
                ELSE acc
    IN IF part.filename /\ part.attachmentId
       THEN [seen EXCEPT !.attachmentCount = @ + 1]
       ELSE seen

RECURSIVE extractContent(_, _, _)
RECURSIVE forEachPart(_, _, _)

\* payload.parts.forEach((part) => extractContent(part))
forEachPart(tree, ps, acc) ==
    IF ps = <<>>
    THEN acc
    ELSE forEachPart(tree, Tail(ps), extractContent(tree, Head(ps), acc))

extractContent(tree, k, acc) ==
    forEachPart(tree, parts(tree, k), visit(acc, tree[k].part, k))

InitMime ==
    /\ InitServer
    /\ NoString
    /\ \E n \in 1..MaxParts : \E up \in ParentMaps(n) :
        \E kinds \in [1..n -> PartKinds] : payload = PartTree(kinds, up)
    /\ extracted = NoExtract
    /\ NoFile
    /\ calls = <<>>

\* extractContent(message.payload)
Extract ==
    /\ ~extracted.done
    /\ extracted' = [extractContent(payload, 1, NoExtract) EXCEPT
                        !.done = TRUE]
    /\ UNCHANGED <<rlVars, callVars, stringVars, payload, pathVars, calls>>

NextMime == Extract

SpecMime == InitMime /\ [][NextMime]_vars

RECURSIVE PathTo(_, _)
\* the parts from message.payload down to part k
PathTo(tree, k) ==
    IF tree[k].parent = 0
    THEN <<k>>
    ELSE Append(PathTo(tree, tree[k].parent), k)

\* part a is met before part b in the depth-first walk: a is above b, or
\* where their paths part, a's path takes the earlier part
MetBefore(tree, a, b) ==
    LET pa == PathTo(tree, a)
        pb == PathTo(tree, b)
    IN  /\ a # b
        /\ \/ Len(pa) < Len(pb) /\ SubSeq(pb, 1, Len(pa)) = pa
           \/ \E i \in 1..Min(Len(pa), Len(pb)) :
                /\ SubSeq(pa, 1, i - 1) = SubSeq(pb, 1, i - 1)
                /\ pa[i] < pb[i]

\* the parts of a type that carry data
BodiesOf(tree, type) ==
    {k \in DOMAIN tree : tree[k].part.data /\ tree[k].part.mimeType = type}

\* the first and the last of some parts in the walk, 0 when there is none
FirstMet(tree, ks) ==
    IF ks = {} THEN 0
    ELSE CHOOSE k \in ks : \A m \in ks \ {k} : MetBefore(tree, k, m)

LastMet(tree, ks) ==
    IF ks = {} THEN 0
    ELSE CHOOSE k \in ks : \A m \in ks \ {k} : MetBefore(tree, m, k)

AttachmentParts(tree) ==
    {k \in DOMAIN tree : tree[k].part.filename /\ tree[k].part.attachmentId}

\* C21 as stated: read_email_html reports the first text/html body and the
\* first text/plain body of the depth-first walk, and attachmentCount is
\* the number of parts with both a filename and an attachment identifier.
C21_AsStated ==
    extracted.done =>
        /\ extracted.htmlBody = FirstMet(payload, BodiesOf(payload, "text/html"))
        /\ extracted.textBody = FirstMet(payload, BodiesOf(payload, "text/plain"))
        /\ extracted.attachmentCount = Cardinality(AttachmentParts(payload))

\* C21: read_email_html walks the whole part tree depth-first and reports
\* the last text/html body and the last text/plain body of that walk (a
\* later part of the same type replaces an earlier one); attachmentCount
\* is the number of parts with both a filename and an attachment
\* identifier.
C21_LastBodiesAndAttachmentCount ==
    extracted.done =>
        /\ extracted.htmlBody = LastMet(payload, BodiesOf(payload, "text/html"))
        /\ extracted.textBody = LastMet(payload, BodiesOf(payload, "text/plain"))
        /\ extracted.attachmentCount = Cardinality(AttachmentParts(payload))

\* A tree with two text/html bodies, the one met last not the one numbered
\* last, and an attachment, has been walked.
C21_Witness ==
    /\ extracted.done
    /\ \E k \in BodiesOf(payload, "text/html") : k > extracted.htmlBody
    /\ extracted.htmlBody # 0
    /\ extracted.attachmentCount = 1

\* ------------------------------------------- downloadAttachment's file path

\* path.join(os.homedir(), '.secure-gmail-mcp'), the home directory being
\* one level below the root; a path is the sequence of its segments
CONFIG_DIR == <<"home", ".secure-gmail-mcp">>

RECURSIVE normalize(_, _)
\* path.normalize of an absolute path: "." goes, ".." takes the segment
\* before it away, and at the root ".." goes as well
normalize(done, rest) ==
    IF rest = <<>>
    THEN done
    ELSE LET segment == Head(rest) IN
         normalize(CASE segment = "." -> done
                     [] segment = ".." ->
                            IF done = <<>> THEN done
                            ELSE SubSeq(done, 1, Len(done) - 1)
                     [] OTHER -> Append(done, segment),
                   Tail(rest))

\* path.join(dir, leaf)
joinPath(dir, leaf) == normalize(<<>>, dir \o leaf)

\* const downloadsDir = path.join(CONFIG_DIR, 'downloads')
downloadsDir == joinPath(CONFIG_DIR, <<"downloads">>)

\* a download that keeps only the last segment of the filename
filePathOfBasename(file) ==
    joinPath(downloadsDir,
             IF file # <<>> THEN <<file[Len(file)]>>
             ELSE <<"attachment_timestamp">>)

\* const finalFilename = filename || `attachment_${timestamp}`;
\* const filePath = path.join(downloadsDir, finalFilename)
filePathOf(file) ==
    joinPath(downloadsDir,
             IF file # <<>> THEN file ELSE <<"attachment_timestamp">>)

\* the filenames handed in: none (<<>>), or up to MaxSegments segments
Filenames ==
    UNION {[1..n -> {"..", ".", "a", "downloads"}] : n \in 0..MaxSegments}

InitPath ==
    /\ InitServer
    /\ NoString
    /\ NoPayload
    /\ fileArg \in Filenames
    /\ filePath = NoOutput
    /\ calls = <<>>

\* await fs.writeFile(filePath, buffer)
WriteFile ==
    /\ ~filePath.done
    /\ filePath' = [done |-> TRUE, value |-> filePathOf(fileArg)]
    /\ UNCHANGED <<rlVars, callVars, stringVars, mimeVars, fileArg, calls>>

NextPath == WriteFile

SpecPath == InitPath /\ [][NextPath]_vars

\* the number of segments of s that are (up == TRUE) or are not ".."
CountSegments(s, up) ==
    Cardinality({k \in DOMAIN s : s[k] # "." /\ (s[k] = "..") = up})

\* file climbs above the directory it is joined to: at some point it has
\* gone up more often than down
Climbs(file) ==
    \E i \in DOMAIN file :
        CountSegments(SubSeq(file, 1, i), TRUE)
            > CountSegments(SubSeq(file, 1, i), FALSE)

\* p does not lie in the downloads directory
Outside(p) ==
    Len(p) < 3 \/ SubSeq(p, 1, 3) # <<"home", ".secure-gmail-mcp", "downloads">>

IdleCall == [pc |-> "idle", valid |-> <<>>, now |-> 0]

InitCalls ==
    /\ InitServer
    /\ NoString
    /\ NoPayload
    /\ NoFile
    /\ calls = [c \in 1..MaxInFlight |-> IdleCall]

\* a runtime that lets a call start or resume in the middle of another
\* call's synchronous code
NoneRunningUnchecked == TRUE

\* run to completion: code between two awaits is not interleaved, so a call
\* starts or resumes only when no call is inside checkRateLimit
NoneRunning == \A d \in DOMAIN calls : calls[d].pc # "checked"

\* The transport hands a request to the async handler: checkRateLimit reads
\* the clock, prunes and tests the ceiling; a denied call throws at once.
Enter(c, now) ==
    /\ calls[c].pc = "idle"
    /\ NoneRunning
    /\ now >= clock
    /\ clock' = now
    /\ requests' = EnsureEntry(requests, "default")
    /\ LET valid == validRequests(requests, "default", now) IN
        IF AtCeiling(valid)
        THEN /\ rlResult' = "denied"
             /\ UNCHANGED calls
        ELSE /\ rlResult' = "allowed"
             /\ calls' = [calls EXCEPT
                            ![c] = [pc |-> "checked", valid |-> valid,
                                    now |-> now]]
    /\ UNCHANGED <<admitted, callVars, stringVars, mimeVars, pathVars>>

\* validRequests.push(now); RATE_LIMIT.requests.set(clientId, validRequests);
\* return true; then the handler runs up to its first await
Record(c) ==
    /\ calls[c].pc = "checked"
    /\ requests' = [requests EXCEPT
                        !["default"] = push(calls[c].valid, calls[c].now)]
    /\ admitted' = Append(admitted, calls[c].now)
    /\ calls' = [calls EXCEPT ![c] = [IdleCall EXCEPT !.pc = "awaiting"]]
    /\ UNCHANGED <<clock, rlResult, callVars, stringVars, mimeVars, pathVars>>

\* the awaited operation settles, the call resumes and runs to its end
Finish(c) ==
    /\ calls[c].pc = "awaiting"
    /\ NoneRunning
    /\ calls' = [calls EXCEPT ![c] = IdleCall]
    /\ UNCHANGED <<rlVars, callVars, stringVars, mimeVars, pathVars>>

NextCalls ==
    \E c \in 1..MaxInFlight :
        \/ \E now \in ClockReadings : Enter(c, now)
        \/ Record(c)
        \/ Finish(c)

SpecCalls == InitCalls /\ [][NextCalls]_vars

\* the calls that have been accepted and have not ended
InFlight == {c \in DOMAIN calls : calls[c].pc # "idle"}

C26_RateLimitAtomicAcrossCalls ==
    /\ Cardinality({c \in DOMAIN calls : calls[c].pc = "checked"}) <= 1
    /\ Len(SelectSeq(History(requests, "default"),
                     LAMBDA t : t > clock - windowMs)) <= maxRequests
    /\ \A now \in ClockReadings :
        Cardinality(AdmittedInWindow(now)) <= maxRequests

\* The ceiling has been reached while two admitted calls are in flight, and
\* a third call has been denied.
C26_Witness ==
    /\ calls # <<>>
    /\ calls[1].pc = "awaiting"
    /\ Cardinality(InFlight) >= 2
    /\ Len(History(requests, "default")) = maxRequests
    /\ Cardinality(AdmittedInWindow(clock)) = maxRequests

\* ------------------------------------------------- slots of the window

\* the stored timestamps that still lie in the window ending at now
StillInWindow(reqs, now) ==
    SelectSeq(History(reqs, "default"), LAMBDA t : t > now - windowMs)

IsPrefix(s, t) == Len(s) <= Len(t) /\ SubSeq(t, 1, Len(s)) = s

\* the ways an admitted call ends without doing its work
EndedEarly ==
    /\ pc = "done"
    /\ \/ result.text \in {AuthFailedMsg, RefusalText, "Unknown tool: no_such_tool"}
       \/ result.text \in ValidationMessages

\* C24: a call the rate limiter admitted holds one slot of the window
\* whatever happens to it (failed authentication, failed validation,
\* unknown tool, empty_spam refusal, success): its timestamp is the last one
\* stored for as long as the call lasts, no step of a call changes the
\* history, and a timestamp leaves the history only by falling out of the
\* window.
C24_AdmittedCallKeepsItsSlot ==
    /\ []((pc # "idle" /\ result.text # RateLimitMsg)
            => /\ Len(History(requests, "default")) > 0
               /\ History(requests, "default")
                    [Len(History(requests, "default"))] = clock)
    /\ [](EndedEarly => clock \in
            {History(requests, "default")[k] :
                k \in DOMAIN History(requests, "default")})
    /\ [][pc # "idle" => requests' = requests]_vars
    /\ [][IsPrefix(StillInWindow(requests, clock'),
                   StillInWindow(requests', clock'))]_vars

\* A call naming an unknown tool has failed after taking the last slot of
\* the window.
C24_Witness ==
    /\ pc = "done"
    /\ result = Failure("Unknown tool: no_such_tool")
    /\ Len(History(requests, "default")) = maxRequests
    /\ History(requests, "default")[maxRequests] = clock

\* ------------------------------------------------ failed authentication

\* authenticate has failed in the call under way
AuthenticationFailed ==
    \E k \in DOMAIN trace :
        trace[k].kind = "authenticate" /\ trace[k].level = "fail"

\* C25: a call whose authentication fails ends with the authentication
\* error without the 'Tool called' entry, without the dispatcher's
\* 'Tool ... failed' entry, without a handler or a mail-API call, and with
\* the handle still absent; the handle stays absent when the call is
\* answered, and every admitted call that finds the handle absent runs
\* authenticate, whatever happened to the calls before it.
C25_FailedAuthenticationNotRemembered ==
    /\ [](AuthenticationFailed
            => /\ pc = "done"
               /\ result = Failure(AuthFailedMsg)
               /\ ~Has(trace, "audit", "Tool called")
               /\ ~Has(trace, "audit", "Tool failed")
               /\ InvokesOf(trace) = <<>>
               /\ ApiCallsOf(trace) = <<>>
               /\ gmail = "null")
    /\ [][AuthenticationFailed => gmail' = "null" /\ pc' = "idle"]_vars
    /\ [][(/\ pc = "idle"
           /\ pc' # "idle"
           /\ gmail = "null"
           /\ checkRateLimit(requests, "default", clock').allowed)
          => pc' = "authenticate"]_vars

\* The second admitted call of a window has failed on the token with the
\* handle absent: the call before it had failed authentication as well.
C25_Witness ==
    /\ pc = "done"
    /\ AuthenticationFailed
    /\ Has(trace, "authenticate", "token")
    /\ auth = "oauth"
    /\ gmail = "null"
    /\ Len(History(requests, "default")) = 2
    /\ History(requests, "default")[1] = clock

\* ------------------------------------------------- the message handed over

\* A message text read the way its receiver reads it: lines end at "\n",
\* the header section ends at the first empty line, the body is what
\* follows that line.
LineBreaks(raw) == {i \in DOMAIN raw : raw[i] = "\n"}

LineStarts(raw) == {1} \cup {i + 1 : i \in LineBreaks(raw)}

LineEnd(raw, p) ==
    LET later == {i \in LineBreaks(raw) : i >= p} IN
    IF later = {} THEN Len(raw) + 1
    ELSE CHOOSE i \in later : \A j \in later : i <= j

LineAt(raw, p) == SubSeq(raw, p, LineEnd(raw, p) - 1)

\* where the empty line that ends the header section starts
HeaderEnd(raw) ==
    LET empty == {p \in LineStarts(raw) : LineAt(raw, p) = <<>>} IN
    IF empty = {} THEN Len(raw) + 1
    ELSE CHOOSE p \in empty : \A q \in empty : p <= q

HeaderLines(raw) ==
    {LineAt(raw, p) : p \in {q \in LineStarts(raw) : q < HeaderEnd(raw)}}

BodyOf(raw) == SubSeq(raw, HeaderEnd(raw) + 1, Len(raw))

StartsWith(line, head) ==
    Len(line) >= Len(head) /\ SubSeq(line, 1, Len(head)) = head

HeaderValues(raw, head) ==
    {SubSeq(line, Len(head) + 1, Len(line)) :
        line \in {l \in HeaderLines(raw) : StartsWith(l, head)}}

\* the recipient header lines of the message
RecipientLines(raw) ==
    {l \in HeaderLines(raw) :
        StartsWith(l, ToHeader) \/ StartsWith(l, CcHeader)
            \/ StartsWith(l, BccHeader)}

\* the recipient header lines made of the addresses validateEmail was
\* asked about and passed
ValidatedLines(a) ==
    {ToHeader \o join(a.to, <<",", " ">>)}
    \cup (IF Len(a.cc) > 0 THEN {CcHeader \o join(a.cc, <<",", " ">>)} ELSE {})
    \cup (IF Len(a.bcc) > 0 THEN {BccHeader \o join(a.bcc, <<",", " ">>)} ELSE {})

NoBrackets(s) == \A k \in DOMAIN s : s[k] \notin {"<", ">"}

\* what C27 says of one message sent for the arguments a
AsSanitized(raw, a) ==
    /\ HeaderValues(raw, SubjectHeader) = {sanitizeInput(a.subject)}
    /\ BodyOf(raw) = sanitizeInput(a.body)
    /\ \A s \in HeaderValues(raw, SubjectHeader) :
        NoBrackets(s) /\ Len(s) <= MaxSubjectLen
    /\ NoBrackets(BodyOf(raw)) /\ Len(BodyOf(raw)) <= MaxBodyLen
    /\ \A k \in DOMAIN allEmails(a) : validateEmail(allEmails(a)[k])
    /\ RecipientLines(raw) = ValidatedLines(a)

\* C27: in every message handed to the send operation the Subject header
\* value and the body are the sanitizeInput images of the caller's subject
\* and body (no angle bracket, at most 255 and 10000 characters), every
\* To, Cc and Bcc address is one that passed validateEmail, and the subject
\* of the success payload is the Subject header value of the message.
C27_AsStated ==
    \A k \in DOMAIN sent :
        /\ AsSanitized(sent[k].raw, args)
        /\ (pc = "done" /\ result.kind = "payload")
            => HeaderValues(sent[k].raw, SubjectHeader) = {result.subject}

LineBreakIn(s) == \E k \in DOMAIN s : s[k] = "\n"

\* the same for subjects of one line
SingleLineSubjectsAsSanitized ==
    ~LineBreakIn(sanitizeInput(args.subject)) => C27_AsStated

\* ------------------------------------------------ the entries of a send

IsAudit(e, level, tag) == e.kind = "audit" /\ e.level = level /\ e.tag = tag

IsSend(e, outcome) ==
    e.kind = "api" /\ e.tag = "messages.send" /\ e.level = outcome

\* C28: in a send_email call the WARN 'Email send attempt' entry is the
\* last thing recorded when the send call is issued, the INFO 'Email sent
\* successfully' entry comes only right after a send call that succeeded,
\* and a send call that failed is followed by the handler's ERROR 'Email
\* send failed' entry and then by the dispatcher's ERROR 'Tool send_email
\* failed' entry, the call ending in an error with no success entry.
C28_SendAuditOrder ==
    /\ pc = "send_call"
        => IsAudit(trace[Len(trace)], "WARN", "Email send attempt")
    /\ \A s \in DOMAIN trace :
        (IsSend(trace[s], "ok") \/ IsSend(trace[s], "fail"))
            => /\ s > 1
               /\ IsAudit(trace[s - 1], "WARN", "Email send attempt")
    /\ \A p \in DOMAIN trace :
        (trace[p].kind = "audit" /\ trace[p].tag = "Email sent successfully")
            => /\ trace[p].level = "INFO"
               /\ p > 1
               /\ IsSend(trace[p - 1], "ok")
    /\ \A s \in DOMAIN trace :
        IsSend(trace[s], "fail")
            => /\ ~Has(trace, "audit", "Email sent successfully")
               /\ Len(trace) > s
               /\ IsAudit(trace[s + 1], "ERROR", "Email send failed")
               /\ pc \in {"catch", "done"}
               /\ pc = "done"
                    => /\ Len(trace) = s + 2
                       /\ IsAudit(trace[s + 2], "ERROR", "Tool failed")
                       /\ trace[s + 2].ref = "send_email"
                       /\ result = Failure("Failed to send email: Error")

\* A send call has failed and the call has ended with both ERROR entries,
\* none of them written to the file.
C28_Witness ==
    /\ pc = "done"
    /\ name = "send_email"
    /\ ~fsOk
    /\ \E s \in DOMAIN trace : IsSend(trace[s], "fail")
    /\ IsAudit(trace[Len(trace)], "ERROR", "Tool failed")

\* ------------------------------------------------ emptySpam comes to an end

\* the steps of a call under way: each awaited operation (mail-API call,
\* audit write, pause) settles, and the code after it runs
SpamRunSteps ==
    \/ AuthCredentialsFail
    \/ AuthTokenFail
    \/ AuthOk
    \/ LogCall
    \/ Dispatch
    \/ Catch
    \/ EmptySpamRefuse
    \/ EmptySpamStart
    \/ SpamListFail
    \/ \E folder \in ExhaustiveFolders \cup BigFolders : SpamListOk(folder)
    \/ SpamBatch
    \/ SpamVisit
    \/ SpamBatchEnd
    \/ SpamFinish

\* emptySpam calls whose awaited operations all settle
SpecSpamLive == SpecSpam /\ WF_vars(SpamRunSteps)

\* the listed messages the loop has gone past
Visited ==
    IF pc = "spam_msg" THEN spam.i + spam.j
    ELSE Min(spam.i, Len(spam.messages))

\* C29: empty_spam with confirm:true comes to its end (a payload or an
\* error) for every listing; while it loops,
\* 0 <= deletedCount <= messages visited <= totalFound, and the batch index
\* is a multiple of 50; at the end deletedCount + failed deletes + listed
\* messages without an id = totalFound.
C29_EmptySpamTerminatesWithCounts ==
    /\ (pc = "emptySpam" /\ Confirmed(args)) ~> (pc = "done")
    /\ [](pc \in {"spam_loop", "spam_msg"}
            => /\ 0 <= spam.deletedCount
               /\ spam.deletedCount <= Visited
               /\ Visited <= Len(spam.messages)
               /\ spam.i % batchSize = 0
               /\ spam.deletedCount + DeleteFailures(trace)
                    + WithoutId(SubSeq(spam.messages, 1, Visited)) = Visited)
    /\ [](SpamRunDone
            => /\ result.totalFound = Len(spam.messages)
               /\ result.deletedCount + DeleteFailures(trace)
                    + WithoutId(spam.messages) = result.totalFound)

\* A run over the largest listing has ended: one delete failed and one
\* message had no id.
C29_Witness ==
    /\ SpamRunDone
    /\ Len(spam.messages) = MaxSpam
    /\ DeleteFailures(trace) = 1
    /\ WithoutId(spam.messages) = 1
    /\ result.deletedCount = MaxSpam - 2

====
